---- MODULE Spec2Model ----
(***************************************************************************)
(* A model of nc (tartarus-git/nc): the NetworkShepherd socket layer and   *)
(* the transfer loops of main.cpp.                                         *)
(*                                                                         *)
(*   SpecResolve : construct_sockaddr (address resolution)                 *)
(*   SpecWrite   : one call of NetworkShepherd::write                      *)
(*   SpecUDP     : one call of NetworkShepherd::writeUDPAndFindMSS         *)
(*   Spec        : main(): TCP client, TCP listener (single connection or  *)
(*                 keep-listening) and UDP sender, main thread and         *)
(*                 receive thread                                          *)
(***************************************************************************)
EXTENDS Integers, Sequences, FiniteSets, TLC

VARIABLES
    csaCall,        \* arguments of the construct_sockaddr call in progress
    csaEnv,         \* what getifaddrs / getaddrinfo answer for this call
    csaResult       \* outcome of the call ("pending" until it has run)

VARIABLES
    exitCode,       \* "none" while the process runs, then the status it exited with
    stderrLog,      \* the error reports written to standard error, in order
    halting         \* the threads that have written their report and called
                    \* halt_program, with the status each passed to it

VARIABLES
    writeState,     \* NetworkShepherd::write: "idle", "running" or "returned"
    wBuffer,        \* the caller's buffer, as passed to write
    byte_buffer,    \* write's cursor, as an offset into wBuffer
    buffer_size,    \* write's count of bytes still to send
    wStart,         \* length of sockOut when write was called
    sockOut         \* every byte handed to a communicator socket by send, in order

VARIABLES
    udpState,               \* writeUDPAndFindMSS: "idle", "running" or "returned"
    uBuffer,                \* the caller's buffer, as passed to writeUDPAndFindMSS
    udp_buffer,             \* its cursor (the parameter buffer), as an offset into uBuffer
    udp_buffer_size,        \* its parameter buffer_size (uint16_t)
    buffer_chunk_size,      \* its chunk size (uint16_t)
    result,                 \* the value it will return (uint16_t)
    lastMTU,                \* what getsockopt wrote to int MTU in the latest
                            \* getMSSApproximation of the call: <<>> before any
    udpHanded,              \* the bytes this call has handed to the socket, in order
    UDPSenderAddressFamily, \* NetworkShepherd::UDPSenderAddressFamily
    senderBufferSize        \* buffer_size of do_UDP_send_and_close

VARIABLES
    mode,               \* what the command line asks for
    pcMain,             \* where the main thread is
    pcRecv,             \* where the receive thread is ("none": never started)
    listenerState,      \* "uncreated", "bound", "listening" or "closed"
    communicatorSocket, \* NetworkShepherd::communicatorSocket
    commOpen,           \* the communicator sockets that are open
    connections,        \* how many communicator sockets were created so far
    shutdowns,          \* shutdown(SHUT_WR) calls on the current communicator
    opLog               \* the calls made on communicatorSocket, each with the
                        \* state the socket was in when the call was made

VARIABLES
    stdinLen,           \* how many bytes standard input holds before end-of-file
    stdinPos,           \* how many of them have been read
    netLen,             \* how many bytes the peer of this connection sends
    netPos,             \* how many of them have been read from the socket
    recvBuffer,         \* the receive thread's buffer, as filled by the last read
    readCalls,          \* ::read calls made by its last NetworkShepherd::read call
    datagrams,          \* how many datagrams the UDP listener has received
    buffer_ptr,         \* its cursor into recvBuffer, as an offset
    bytesRead,          \* its count of bytes still to write to standard output
    recvLog,            \* every byte read from a communicator socket, in order
    stdoutLog,          \* every byte written to standard output, in order
    stdoutClosed,       \* standard output has been closed
    readAfterShutdown,  \* the receive thread has read data after the half-close
    \* a lone call of NetworkShepherd::createListener, followed by listen
    listenerLog,        \* the calls made on the listener socket, in order
    bindErrors,         \* the bind calls that returned SOCKET_ERROR, in order:
                        \* the socket, errno and the port asked for
    \* a lone call of writeErrorAndCodeAndExit
    reportState,        \* where the call is
    errorCode,          \* its argument
    errorCode_negative, positive_errorCode, digits,
    digits_ptr,         \* as an offset into digits
    \* a lone call of validateFlagRelationships and a lone call of parsePort
    flags,              \* namespace flags, main.cpp 51-64
    portString          \* the argument of parsePort, as the values of its chars

resolveVars == <<csaCall, csaEnv, csaResult>>
procVars == <<exitCode, stderrLog, halting>>
writeVars == <<writeState, wBuffer, byte_buffer, buffer_size, wStart, sockOut>>
udpVars == <<udpState, uBuffer, udp_buffer, udp_buffer_size, buffer_chunk_size,
             result, lastMTU, udpHanded, UDPSenderAddressFamily, senderBufferSize>>
sockVars == <<listenerState, communicatorSocket, commOpen, connections, shutdowns>>
progVars == <<mode, pcMain, pcRecv, sockVars, opLog>>
ioVars == <<stdinLen, stdinPos, netLen, netPos, recvBuffer, readCalls, datagrams, buffer_ptr,
            bytesRead, recvLog, stdoutLog, stdoutClosed, readAfterShutdown>>

listenVars == <<listenerLog, bindErrors>>

reportVars == <<reportState, errorCode, errorCode_negative, positive_errorCode, digits,
                digits_ptr>>

argVars == <<flags, portString>>

vars == <<resolveVars, listenVars, reportVars, argVars, procVars, writeVars, udpVars, progVars,
          ioVars>>

-----------------------------------------------------------------------------
(* Bounds of the model *)

MaxIfs == 3         \* longest list getifaddrs hands back
MaxCands == 2       \* longest list getaddrinfo hands back
MaxWrite == 6       \* longest buffer passed to a lone write call
MaxUDP == 4         \* longest buffer passed to a lone writeUDPAndFindMSS call
MaxMSS == 3         \* largest payload the reported MTU leaves room for
MaxOverrun == 2     \* how far past the buffer a send is followed
MaxStdin == 3       \* most bytes standard input holds
MaxNet == 2         \* most bytes one peer sends
MaxConns == 2       \* most connections a keep-listening run accepts
MaxDatagrams == 2   \* most datagrams a UDP listener is followed for
BUFSIZ == 2         \* size of the transfer buffers (scaled down)
MTUSpan == 64       \* the small MTUs 1 .. MTUSpan are followed one by one

-----------------------------------------------------------------------------
(* The process: error reports and exit, error_reporting.h and halt_program.h *)

NULL == "nullptr"

Running == exitCode = "none"

\* the thread has not called halt_program and the process is alive
Runs(thread) == Running /\ \A h \in halting : h.thread # thread

ProcInit == exitCode = "none" /\ stderrLog = <<>> /\ halting = {}

\* writeErrorAndExit / writeErrorAndCodeAndExit as one thread runs them,
\* error_reporting.h 14-18 and 22-51: the report is written to standard error,
\* then the thread calls halt_program; the process goes on until std::exit
\* has ended it
writeErrorAndExit(thread, report, code) ==
    /\ stderrLog' = Append(stderrLog, report)
    /\ halting' = halting \cup {[thread |-> thread, code |-> code]}
    /\ UNCHANGED exitCode

\* a call of halt_program that no report precedes, main.cpp 198
HaltWithoutReport(thread, code) ==
    /\ halting' = halting \cup {[thread |-> thread, code |-> code]}
    /\ UNCHANGED <<stderrLog, exitCode>>

\* the two macros as the main thread invokes them, error_reporting.h 20 and
\* 53; the report keeps the errorCode argument
REPORT_ERROR_AND_EXIT(message, code) ==
    writeErrorAndExit("main", [message |-> message], code)

REPORT_ERROR_AND_CODE_AND_EXIT(message, error, code) ==
    writeErrorAndExit("main", [message |-> message, errorCode |-> error], code)

\* halt_program, halt_program.h 3-6: std::exit ends the process with the
\* status of a thread that called it (one of them when two threads did)
halt_program ==
    /\ Running
    /\ \E h \in halting : exitCode' = h.code
    /\ UNCHANGED <<stderrLog, halting>>

\* static socket_t NetworkShepherd::communicatorSocket: zero until assigned
NoSocket == 0
INVALID_SOCKET == -1

\* the state of the socket a handle names
SocketStatus(socket, open) ==
    IF socket = NoSocket \/ socket = INVALID_SOCKET THEN "uncreated"
    ELSE IF socket \in open THEN "open"
    ELSE "closed"

\* a call op made on communicatorSocket by a thread
CommCall(thread, op) ==
    [op |-> op, thread |-> thread,
     on |-> SocketStatus(communicatorSocket, commOpen)]

\* no construct_sockaddr call, no write call, no writeUDPAndFindMSS call in
\* progress
ResolveIdle == csaCall = NULL /\ csaEnv = NULL /\ csaResult = NULL

ListenIdle == listenerLog = <<>> /\ bindErrors = <<>>

ReportIdle ==
    /\ reportState = "idle" /\ errorCode = 0 /\ errorCode_negative = FALSE
    /\ positive_errorCode = 0 /\ digits = <<>> /\ digits_ptr = 0

\* namespace flags as initialised, main.cpp 51-64: sourceIP is kept as whether
\* it is non-null
DefaultFlags ==
    [sourceIP |-> FALSE, sourcePort |-> 0, IPVersionConstraint |-> "NONE",
     shouldListen |-> FALSE, shouldKeepListening |-> FALSE, backlog |-> -1,
     shouldUseUDP |-> FALSE, allowBroadcast |-> FALSE]

ArgsIdle == flags = DefaultFlags /\ portString = <<>>

UdpIdle ==
    /\ udpState = "idle" /\ uBuffer = <<>> /\ udp_buffer = 0 /\ udp_buffer_size = 0
    /\ buffer_chunk_size = 0 /\ result = 0 /\ lastMTU = <<>> /\ udpHanded = <<>>
    /\ UDPSenderAddressFamily = NULL /\ senderBufferSize = 0

IoIdle ==
    /\ stdinLen = 0 /\ stdinPos = 0 /\ netLen = 0 /\ netPos = 0
    /\ recvBuffer = <<>> /\ readCalls = 0 /\ datagrams = 0 /\ buffer_ptr = 0 /\ bytesRead = 0
    /\ recvLog = <<>> /\ stdoutLog = <<>> /\ stdoutClosed = FALSE
    /\ readAfterShutdown = FALSE

\* main() has not started: only construct_sockaddr is looked at
ProgIdle ==
    /\ mode = NULL /\ pcMain = "construct_sockaddr" /\ pcRecv = "none"
    /\ listenerState = "uncreated" /\ communicatorSocket = NoSocket
    /\ commOpen = {} /\ connections = 0 /\ shutdowns = 0 /\ opLog = {}

\* the main thread is inside a call on its open communicator socket
ProgInCall(m, pc) ==
    /\ mode = m /\ pcMain = pc /\ pcRecv = "none"
    /\ listenerState = "uncreated" /\ communicatorSocket = 1
    /\ commOpen = {1} /\ connections = 1 /\ shutdowns = 0 /\ opLog = {}

WriteIdle ==
    /\ writeState = "idle" /\ wBuffer = <<>> /\ byte_buffer = 0
    /\ buffer_size = 0 /\ wStart = 0 /\ sockOut = <<>>

\* a byte of a stream is known by its place in the stream
Stream(n) == [i \in 1..n |-> i]

\* bytes lo+1 .. lo+n of a buffer
Bytes(buf, lo, n) == SubSeq(buf, lo + 1, lo + n)

IsPrefix(s, t) == Len(s) <= Len(t) /\ SubSeq(t, 1, Len(s)) = s

-----------------------------------------------------------------------------
(* Address resolution: construct_sockaddr, NetworkShepherd.cpp 74-193 *)

\* enum class IPVersionConstraint
IPVersionConstraint == {"NONE", "FOUR", "SIX"}

\* address families an interface entry or a lookup candidate can carry
InterfaceFamilies == {"AF_INET", "AF_INET6", "AF_PACKET"}
CandidateFamilies == {"AF_INET", "AF_INET6", "AF_OTHER"}

\* the node the caller asks for, and another interface name of the host
NodeName == "eth0"
OtherName == "lo"

Ports == {80, 65535}

\* htons on a little-endian host: the two bytes of the port swapped
htons(p) == (p % 256) * 256 + (p \div 256)
ntohs(p) == (p % 256) * 256 + (p \div 256)

\* one struct ifaddrs entry: its name and its address (NULL when it has none).
\* An entry of another interface is skipped by the strcmp of line 104 whatever
\* its address, so one such entry stands for all of them.
IfaEntries ==
    [ifa_name : {NodeName}, sa_family : InterfaceFamilies \cup {NULL}]
        \cup {[ifa_name |-> OtherName, sa_family |-> "AF_INET"]}

RECURSIVE SeqsUpTo(_, _)
SeqsUpTo(S, n) ==
    IF n = 0 THEN {<<>>}
    ELSE LET shorter == SeqsUpTo(S, n - 1)
         IN  shorter \cup {Append(s, x) : s \in {t \in shorter : Len(t) = n - 1}, x \in S}

\* The i-th entry of a list carries the address "if<i>" / "ai<i>": every entry
\* of a list has an address of its own, so which entry was copied is visible.
IfaAddr(ifs, i) ==
    IF ifs[i].sa_family = NULL THEN NULL
    ELSE [sa_family |-> ifs[i].sa_family, sin_addr |-> <<"if", i>>]

AiAddr(ais, j) == [sa_family |-> ais[j], sin_addr |-> <<"ai", j>>]

\* the switch with the continue of line 114 missing: under SIX an IPv4 entry
\* is copied as well
InterfaceFamilyAccepted_NoContinue(constraint, family) ==
    CASE constraint = "NONE" -> family = "AF_INET6" \/ family = "AF_INET"
      [] constraint = "FOUR" -> family = "AF_INET"
      [] constraint = "SIX"  -> family = "AF_INET" \/ family = "AF_INET6"

\* switch (nodeAddressIPVersionConstraint) of the interface loop, lines 109-118:
\* does the entry's family end in a copy (break) rather than in continue
InterfaceFamilyAccepted(constraint, family) ==
    CASE constraint = "NONE" -> family = "AF_INET6" \/ family = "AF_INET"
      [] constraint = "FOUR" -> family = "AF_INET"
      [] constraint = "SIX"  -> family = "AF_INET6"

\* for (addr = interfaceAddresses; addr->ifa_next != nullptr; addr = addr->ifa_next)
\* lines 103-126: index of the entry the loop returns from, 0 when it runs out.
\* The loop body runs only for entries that have a successor.
RECURSIVE InterfaceLoop(_, _, _, _)
InterfaceLoop(ifs, i, node, constraint) ==
    IF ~(i < Len(ifs)) THEN 0
    ELSE IF /\ ifs[i].ifa_name = node
            /\ ifs[i].sa_family # NULL
            /\ InterfaceFamilyAccepted(constraint, ifs[i].sa_family)
         THEN i
         ELSE InterfaceLoop(ifs, i + 1, node, constraint)

\* the hint left at AF_UNSPEC whatever the constraint
HintFamily_Unspec(constraint) == "AF_UNSPEC"

\* switch of lines 135-139
HintFamily(constraint) ==
    CASE constraint = "NONE" -> "AF_UNSPEC"
      [] constraint = "FOUR" -> "AF_INET"
      [] constraint = "SIX"  -> "AF_INET6"

\* getaddrinfo's error codes, and the message of the switch of lines 143-169
GaiErrors ==
    {"EAI_AGAIN", "EAI_FAIL", "EAI_MEMORY", "EAI_NODATA", "EAI_NONAME",
     "EAI_SYSTEM", "EAI_ADDRFAMILY"}

GaiErrorMessage(code) ==
    CASE code = "EAI_AGAIN"  -> "sockaddr construction failed, temporary DNS lookup failure, try again later"
      [] code = "EAI_FAIL"   -> "sockaddr construction failed, DNS lookup failed"
      [] code = "EAI_MEMORY" -> "sockaddr construction failed, out of memory"
      [] code = "EAI_NODATA" -> "sockaddr construction failed, hostname does not possess any valid addresses"
      [] code = "EAI_NONAME" -> "sockaddr construction failed, invalid address/hostname/interface"
      [] code = "EAI_SYSTEM" -> "sockaddr construction failed, system error"
      [] OTHER               -> "sockaddr construction failed, unknown reason"

\* getaddrinfo(node, nullptr, &hint, &addressInfo): the candidates of the
\* requested family, in the system's order (indices into env.addressInfo)
GaiCandidates(env, ai_family) ==
    LET ais == env.addressInfo
        RECURSIVE Pick(_)
        Pick(j) ==
            IF j > Len(ais) THEN <<>>
            ELSE IF ai_family = "AF_UNSPEC" \/ ais[j] = ai_family
                 THEN <<j>> \o Pick(j + 1)
                 ELSE Pick(j + 1)
    IN  Pick(1)

\* the value getaddrinfo returns ("OK": 0). With AI_NUMERICHOST a node that is
\* no literal address is EAI_NONAME; no candidate of the family is an error as
\* well; err is the failure the system reports otherwise ("OK": none).
GaiOutcome(env, ai_flags_numerichost, ai_family, err) ==
    IF ai_flags_numerichost /\ ~env.numericNode THEN "EAI_NONAME"
    ELSE IF err # "OK" THEN err
    ELSE IF GaiCandidates(env, ai_family) = <<>> THEN "EAI_NONAME"
    ELSE "OK"

\* the candidate loop, had it looked ahead for an IPv6 candidate before
\* settling for an IPv4 one
RECURSIVE CandidateLoop_PreferV6(_, _, _, _)
CandidateLoop_PreferV6(ais, cands, k, constraint) ==
    LET j == cands[k]
        v6 == {m \in k..Len(cands) : ais[cands[m]] = "AF_INET6"}
    IN  CASE constraint = "NONE" ->
                IF v6 # {} THEN <<"copy", cands[CHOOSE m \in v6 : \A n \in v6 : m <= n]>>
                ELSE IF ais[j] = "AF_INET" THEN <<"copy", j>>
                ELSE IF k = Len(cands) THEN <<"uninit">>
                ELSE CandidateLoop_PreferV6(ais, cands, k + 1, constraint)
          [] constraint = "FOUR" -> <<"copy", j>>
          [] constraint = "SIX"  -> <<"copy", j>>

\* for (info = addressInfo; ; info = info->ai_next), lines 171-190.
\* cands: the indices getaddrinfo returned; k: position in that list.
\* Result: <<"copy", j>> when candidate j is copied into result_sockaddr,
\* <<"uninit">> when the switch is left by the break of line 179 with
\* result_sockaddr never written.
RECURSIVE CandidateLoop(_, _, _, _)
CandidateLoop(ais, cands, k, constraint) ==
    LET j == cands[k]
    IN  CASE constraint = "NONE" ->
                IF ais[j] = "AF_INET6" THEN <<"copy", j>>
                ELSE IF ais[j] = "AF_INET" THEN <<"copy", j>>
                ELSE IF k = Len(cands) THEN <<"uninit">>
                ELSE CandidateLoop(ais, cands, k + 1, constraint)
          [] constraint = "FOUR" -> <<"copy", j>>
          [] constraint = "SIX"  -> <<"copy", j>>

Pending == [kind |-> "pending"]

\* the port stored as the host holds it, without htons
Returned_HostOrder(addr, port, via) ==
    [kind |-> "addr", via |-> via,
     addr |-> [sa_family |-> addr.sa_family, sin_addr |-> addr.sin_addr,
               sin_port |-> port]]

Returned(addr, port, via) ==
    [kind |-> "addr", via |-> via,
     addr |-> [sa_family |-> addr.sa_family, sin_addr |-> addr.sin_addr,
               sin_port |-> htons(port)]]

\* REPORT_ERROR_AND_EXIT(message, exitCode)
Exited(message, status) ==
    [kind |-> "exit", message |-> message, exitCode |-> status]

\* construct_sockaddr<resolve_interfaces>, lines 97-133: the interface
\* enumeration. The result is the address returned from inside the loop, or
\* "lookup" when the function goes on to getaddrinfo.
construct_sockaddr_interfaces(resolve_interfaces, node, port, constraint, env) ==
    LET ifs   == env.interfaceAddresses
        found == InterfaceLoop(ifs, 1, node, constraint)
    IN  IF ~resolve_interfaces \/ ~env.getifaddrsOK THEN [kind |-> "lookup"]
        ELSE IF ifs = <<>>
             THEN [kind |-> "crash"]      \* addr->ifa_next read through a null addr
        ELSE IF found # 0 THEN Returned(IfaAddr(ifs, found), port, "interface")
        ELSE [kind |-> "lookup"]

\* construct_sockaddr<resolve_interfaces>, lines 131-193: the name lookup and
\* the candidate selection. err: the failure getaddrinfo reports on its own
\* ("OK": none); garbage: the family an unwritten result_sockaddr happens to hold.
construct_sockaddr_lookup(resolve_interfaces, node, port, constraint, env, err, garbage) ==
    LET gai   == GaiOutcome(env, resolve_interfaces, HintFamily(constraint), err)
        cands == GaiCandidates(env, HintFamily(constraint))
        pick  == CandidateLoop(env.addressInfo, cands, 1, constraint)
    IN  IF gai # "OK" THEN Exited(GaiErrorMessage(gai), "EXIT_FAILURE")
        ELSE IF pick[1] = "copy"
             THEN Returned(AiAddr(env.addressInfo, pick[2]), port, "lookup")
             ELSE [kind |-> "uninit", via |-> "lookup",
                   addr |-> [sa_family |-> garbage, sin_addr |-> "indeterminate",
                             sin_port |-> htons(port)]]

CsaEnvs ==
    [getifaddrsOK : BOOLEAN,
     interfaceAddresses : SeqsUpTo(IfaEntries, MaxIfs),
     numericNode : BOOLEAN,
     addressInfo : SeqsUpTo(CandidateFamilies, MaxCands)]

CsaCalls ==
    [resolve_interfaces : BOOLEAN, node : {NodeName}, port : Ports,
     constraint : IPVersionConstraint]

\* getifaddrs is called only when interfaces are resolved, and hands back a
\* list only when it succeeds; the list then holds at least the loopback
\* interface that every host has.
InitResolve ==
    /\ csaCall \in CsaCalls
    /\ csaEnv \in {e \in CsaEnvs :
                     /\ e.getifaddrsOK <=> e.interfaceAddresses # <<>>
                     /\ ~csaCall.resolve_interfaces => ~e.getifaddrsOK}
    /\ csaResult = Pending
    /\ ProcInit /\ ListenIdle /\ ReportIdle /\ ArgsIdle /\ WriteIdle /\ UdpIdle /\ ProgIdle /\ IoIdle

\* lines 97-133
ResolveInterfaces ==
    /\ csaResult.kind = "pending"
    /\ csaResult' = construct_sockaddr_interfaces(csaCall.resolve_interfaces,
                        csaCall.node, csaCall.port, csaCall.constraint, csaEnv)
    /\ UNCHANGED <<csaCall, csaEnv, listenVars, reportVars, argVars, procVars, writeVars, udpVars, progVars, ioVars>>

\* lines 135-193
ResolveLookup ==
    /\ csaResult.kind = "lookup"
    /\ \E err \in GaiErrors \cup {"OK"}, garbage \in CandidateFamilies :
          csaResult' = construct_sockaddr_lookup(csaCall.resolve_interfaces,
                           csaCall.node, csaCall.port, csaCall.constraint,
                           csaEnv, err, garbage)
    /\ UNCHANGED <<csaCall, csaEnv, listenVars, reportVars, argVars, procVars, writeVars, udpVars, progVars, ioVars>>

NextResolve == ResolveInterfaces \/ ResolveLookup

SpecResolve == InitResolve /\ [][NextResolve]_vars

-----------------------------------------------------------------------------
(* NetworkShepherd::write, NetworkShepherd.cpp 439-541 *)

\* errno values send can fail with on the communicator
SendErrnos == {"ECONNRESET", "EPIPE", "ETIMEDOUT", "ENOBUFS"}

\* entry of write(buffer, buffer_size), lines 441-442
WriteCall(buffer) ==
    /\ writeState' = "running"
    /\ wBuffer' = buffer
    /\ byte_buffer' = 0
    /\ buffer_size' = Len(buffer)
    /\ wStart' = Len(sockOut)
    /\ UNCHANGED sockOut

\* the counts a send of size bytes can return: all of them or, for a stream
\* socket, any positive part of them
SendCounts(size) == IF size = 0 THEN {0} ELSE 1..size

\* the switch of lines 455-477 (POSIX build: the ETIMEDOUT label has no
\* statement of its own and falls into default)
WriteError(error) ==
    IF error \in {"ECONNRESET", "EPIPE"}
    THEN REPORT_ERROR_AND_EXIT(
            "failed to send on communicator socket, connection reset", "EXIT_FAILURE")
    ELSE REPORT_ERROR_AND_CODE_AND_EXIT(
            "failed to send on communicator socket, unknown reason", error, "EXIT_FAILURE")

\* write's loop with the cursor left where it is after a short send
WriteSend_NoAdvance ==
    /\ Runs("main") /\ writeState = "running"
    /\ \/ /\ \E bytesWritten \in SendCounts(buffer_size) :
                /\ sockOut' = sockOut \o Bytes(wBuffer, byte_buffer, bytesWritten)
                /\ IF bytesWritten = buffer_size
                   THEN writeState' = "returned" /\ UNCHANGED <<byte_buffer, buffer_size>>
                   ELSE /\ buffer_size' = buffer_size - bytesWritten
                        /\ UNCHANGED <<writeState, byte_buffer>>
          /\ UNCHANGED <<wBuffer, wStart, procVars>>
       \/ /\ \E error \in SendErrnos : WriteError(error)
          /\ UNCHANGED writeVars
    /\ opLog' = opLog \cup {CommCall("main", "send")}
    /\ UNCHANGED <<resolveVars, listenVars, reportVars, argVars, udpVars, mode, pcMain, pcRecv, sockVars, ioVars>>

\* write's loop returning after the first send that sent anything, as the
\* write syscall does
WriteSend_ReturnsEarly ==
    /\ Runs("main") /\ writeState = "running"
    /\ \/ /\ \E bytesWritten \in SendCounts(buffer_size) :
                /\ sockOut' = sockOut \o Bytes(wBuffer, byte_buffer, bytesWritten)
                /\ writeState' = "returned"
                /\ UNCHANGED <<byte_buffer, buffer_size>>
          /\ UNCHANGED <<wBuffer, wStart, procVars>>
       \/ /\ \E error \in SendErrnos : WriteError(error)
          /\ UNCHANGED writeVars
    /\ opLog' = opLog \cup {CommCall("main", "send")}
    /\ UNCHANGED <<resolveVars, listenVars, reportVars, argVars, udpVars, mode, pcMain, pcRecv, sockVars, ioVars>>

\* one turn of write's loop, lines 444-540: a send of the unsent rest, then
\* return, exit or advance
WriteSend ==
    /\ Runs("main") /\ writeState = "running"
    /\ \/ /\ \E bytesWritten \in SendCounts(buffer_size) :
                /\ sockOut' = sockOut \o Bytes(wBuffer, byte_buffer, bytesWritten)
                /\ IF bytesWritten = buffer_size
                   THEN writeState' = "returned" /\ UNCHANGED <<byte_buffer, buffer_size>>
                   ELSE /\ byte_buffer' = byte_buffer + bytesWritten
                        /\ buffer_size' = buffer_size - bytesWritten
                        /\ UNCHANGED writeState
          /\ UNCHANGED <<wBuffer, wStart, procVars>>
       \/ /\ \E error \in SendErrnos : WriteError(error)
          /\ UNCHANGED writeVars
    /\ opLog' = opLog \cup {CommCall("main", "send")}
    /\ UNCHANGED <<resolveVars, listenVars, reportVars, argVars, udpVars, mode, pcMain, pcRecv, sockVars, ioVars>>

\* a lone call write(buffer, n) for every n up to MaxWrite
InitWrite ==
    /\ ProcInit
    /\ \E n \in 0..MaxWrite :
          /\ wBuffer = Stream(n)
          /\ buffer_size = n
    /\ writeState = "running" /\ byte_buffer = 0 /\ wStart = 0 /\ sockOut = <<>>
    /\ ResolveIdle /\ ListenIdle /\ ReportIdle /\ ArgsIdle /\ UdpIdle /\ IoIdle /\ ProgInCall("tcp_connect", "write")

\* std::exit ending the process
HaltProgram ==
    /\ halt_program
    /\ UNCHANGED <<resolveVars, listenVars, reportVars, argVars, writeVars, udpVars, progVars, ioVars>>

NextWrite == WriteSend \/ HaltProgram

SpecWrite == InitWrite /\ [][NextWrite]_vars

-----------------------------------------------------------------------------
(* getMSSApproximation and writeUDPAndFindMSS, NetworkShepherd.cpp 615-693 *)

UINT16 == 65536

SenderFamilies == {"AF_INET", "AF_INET6"}

\* IP header plus UDP header of the family, line 637
HeaderOverhead(family) == IF family = "AF_INET6" THEN 40 + 8 ELSE 20 + 8

\* the MTUs getsockopt(IP_MTU / IPV6_MTU) reports: the headers of the family
\* and room for a payload of 1 .. MaxMSS bytes (scaled down)
MTUValues(family) == {HeaderOverhead(family) + m : m \in 1..MaxMSS}

\* getMSSApproximation, lines 615-638, for the MTU getsockopt reported; the
\* int difference is returned as uint16_t
getMSSApproximation(family, MTU) ==
    (IF family = "AF_INET6" THEN MTU - 40 - 8 ELSE MTU - 20 - 8) % UINT16

\* errno values write can fail with on the UDP sender, other than EMSGSIZE
UdpWriteErrnos == {"ECONNREFUSED", "EPERM"}

\* entry of writeUDPAndFindMSS(buffer, buffer_size), lines 662-665
UdpCall(buffer) ==
    /\ udpState' = "running"
    /\ uBuffer' = buffer
    /\ udp_buffer' = 0
    /\ udp_buffer_size' = Len(buffer)
    /\ buffer_chunk_size' = Len(buffer)
    /\ result' = 0
    /\ lastMTU' = <<>>
    /\ udpHanded' = <<>>

\* the count a write of chunk bytes can return
UdpSendCounts(chunk) == IF chunk = 0 THEN {0} ELSE 1..chunk

\* what write reads at offset lo .. lo+n-1 of the caller's buffer: its bytes,
\* and whatever lies behind the buffer for offsets past its end
BytesRead(buf, lo, n) ==
    [i \in 1..n |-> IF lo + i <= Len(buf) THEN buf[lo + i] ELSE "past the end"]

\* the loop with result set by the first message-too-large answer only
UdpSend_KeepsFirstMSS ==
    /\ Runs("main") /\ udpState = "running"
    /\ \/ /\ \E bytesSent \in UdpSendCounts(buffer_chunk_size) :
                /\ udp_buffer + bytesSent <= Len(uBuffer) + MaxOverrun
                /\ udpHanded' = udpHanded \o BytesRead(uBuffer, udp_buffer, bytesSent)
                /\ IF bytesSent = buffer_chunk_size
                   THEN /\ udpState' = "returned"
                        /\ UNCHANGED <<udp_buffer, udp_buffer_size, buffer_chunk_size>>
                   ELSE LET buffer   == udp_buffer + bytesSent
                            size     == (Len(uBuffer) - buffer) % UINT16
                        IN  /\ udp_buffer' = buffer
                            /\ udp_buffer_size' = size
                            /\ buffer_chunk_size' =
                                  IF size < buffer_chunk_size THEN size
                                  ELSE buffer_chunk_size
                            /\ UNCHANGED udpState
          /\ opLog' = opLog \cup {CommCall("main", "write")}
          /\ UNCHANGED <<result, lastMTU, procVars>>
       \/ \* EMSGSIZE: getMSSApproximation() becomes chunk size and result
          /\ \E value \in MTUValues(UDPSenderAddressFamily) :
                /\ lastMTU' = <<value>>
                /\ buffer_chunk_size' = getMSSApproximation(UDPSenderAddressFamily, value)
                /\ result' = IF result = 0 THEN buffer_chunk_size' ELSE result
          /\ opLog' = opLog \cup {CommCall("main", "write"), CommCall("main", "getsockopt")}
          /\ UNCHANGED <<udpState, udp_buffer, udp_buffer_size, udpHanded, procVars>>
       \/ \* EMSGSIZE, and the getsockopt of getMSSApproximation fails
          /\ REPORT_ERROR_AND_EXIT(
                "failed to get MTU from UDP sender socket with getsockopt", "EXIT_FAILURE")
          /\ opLog' = opLog \cup {CommCall("main", "write"), CommCall("main", "getsockopt")}
          /\ UNCHANGED <<udpState, udp_buffer, udp_buffer_size, buffer_chunk_size,
                         result, lastMTU, udpHanded>>
       \/ /\ \E error \in UdpWriteErrnos :
                REPORT_ERROR_AND_CODE_AND_EXIT(
                    "failed to write to UDP sender socket", error, "EXIT_FAILURE")
          /\ opLog' = opLog \cup {CommCall("main", "write")}
          /\ UNCHANGED <<udpState, udp_buffer, udp_buffer_size, buffer_chunk_size,
                         result, lastMTU, udpHanded>>
    /\ UNCHANGED <<uBuffer, UDPSenderAddressFamily, senderBufferSize>>
    /\ UNCHANGED <<resolveVars, listenVars, reportVars, argVars, writeVars, mode, pcMain, pcRecv, sockVars, ioVars>>

\* one turn of the loop of writeUDPAndFindMSS, lines 666-691: a write of
\* buffer_chunk_size bytes at the cursor, then return, a new chunk size, exit
\* or advance. A write that starts or ends past the buffer is followed only
\* MaxOverrun bytes far.
UdpSend ==
    /\ Runs("main") /\ udpState = "running"
    /\ \/ /\ \E bytesSent \in UdpSendCounts(buffer_chunk_size) :
                /\ udp_buffer + bytesSent <= Len(uBuffer) + MaxOverrun
                /\ udpHanded' = udpHanded \o BytesRead(uBuffer, udp_buffer, bytesSent)
                /\ IF bytesSent = buffer_chunk_size
                   THEN /\ udpState' = "returned"
                        /\ UNCHANGED <<udp_buffer, udp_buffer_size, buffer_chunk_size>>
                   ELSE LET buffer   == udp_buffer + bytesSent
                            size     == (Len(uBuffer) - buffer) % UINT16
                        IN  /\ udp_buffer' = buffer
                            /\ udp_buffer_size' = size
                            /\ buffer_chunk_size' =
                                  IF size < buffer_chunk_size THEN size
                                  ELSE buffer_chunk_size
                            /\ UNCHANGED udpState
          /\ opLog' = opLog \cup {CommCall("main", "write")}
          /\ UNCHANGED <<result, lastMTU, procVars>>
       \/ \* EMSGSIZE: getMSSApproximation() becomes chunk size and result
          /\ \E value \in MTUValues(UDPSenderAddressFamily) :
                /\ lastMTU' = <<value>>
                /\ buffer_chunk_size' = getMSSApproximation(UDPSenderAddressFamily, value)
                /\ result' = buffer_chunk_size'
          /\ opLog' = opLog \cup {CommCall("main", "write"), CommCall("main", "getsockopt")}
          /\ UNCHANGED <<udpState, udp_buffer, udp_buffer_size, udpHanded, procVars>>
       \/ \* EMSGSIZE, and the getsockopt of getMSSApproximation fails
          /\ REPORT_ERROR_AND_EXIT(
                "failed to get MTU from UDP sender socket with getsockopt", "EXIT_FAILURE")
          /\ opLog' = opLog \cup {CommCall("main", "write"), CommCall("main", "getsockopt")}
          /\ UNCHANGED <<udpState, udp_buffer, udp_buffer_size, buffer_chunk_size,
                         result, lastMTU, udpHanded>>
       \/ /\ \E error \in UdpWriteErrnos :
                REPORT_ERROR_AND_CODE_AND_EXIT(
                    "failed to write to UDP sender socket", error, "EXIT_FAILURE")
          /\ opLog' = opLog \cup {CommCall("main", "write")}
          /\ UNCHANGED <<udpState, udp_buffer, udp_buffer_size, buffer_chunk_size,
                         result, lastMTU, udpHanded>>
    /\ UNCHANGED <<uBuffer, UDPSenderAddressFamily, senderBufferSize>>
    /\ UNCHANGED <<resolveVars, listenVars, reportVars, argVars, writeVars, mode, pcMain, pcRecv, sockVars, ioVars>>

\* a lone call writeUDPAndFindMSS(buffer, len) for every len from 1 (its caller
\* passes what a read of standard input returned, main.cpp 270-274) up to
\* MaxUDP, on a sender of either family
InitUDP ==
    /\ ProcInit
    /\ \E len \in 1..MaxUDP :
          /\ uBuffer = Stream(len)
          /\ udp_buffer_size = len
          /\ buffer_chunk_size = len
    /\ udpState = "running" /\ udp_buffer = 0 /\ result = 0 /\ lastMTU = <<>> /\ udpHanded = <<>>
    /\ UDPSenderAddressFamily \in SenderFamilies
    /\ senderBufferSize = MaxUDP
    /\ ResolveIdle /\ ListenIdle /\ ReportIdle /\ ArgsIdle /\ WriteIdle /\ IoIdle /\ ProgInCall("udp_send", "writeUDPAndFindMSS")

NextUDP == UdpSend \/ HaltProgram

SpecUDP == InitUDP /\ [][NextUDP]_vars

\* what getsockopt(IP_MTU / IPV6_MTU) can write to int MTU, line 629: the route
\* or the device decides, the function accepts every value. The small values
\* one by one, then the usual ones and the largest of each family.
ReportedMTUs == (1..MTUSpan) \cup {68, 576, 1280, 1500, 9000, 65535, 65575}

\* a lone call of getMSSApproximation on a sender of either family, as
\* do_UDP_send_and_close makes it for its buffer size, main.cpp 265
InitMSS ==
    /\ ProcInit
    /\ udpState = "idle" /\ uBuffer = <<>> /\ udp_buffer = 0 /\ udp_buffer_size = 0
    /\ buffer_chunk_size = 0 /\ result = 0 /\ lastMTU = <<>> /\ udpHanded = <<>>
    /\ UDPSenderAddressFamily \in SenderFamilies
    /\ senderBufferSize = 0
    /\ ResolveIdle /\ ListenIdle /\ ReportIdle /\ ArgsIdle /\ WriteIdle /\ IoIdle
    /\ ProgInCall("udp_send", "getMSSApproximation")

\* the call: getsockopt reports an MTU or fails, lines 629-637
GetMSSApproximation ==
    /\ Runs("main") /\ pcMain = "getMSSApproximation"
    /\ opLog' = opLog \cup {CommCall("main", "getsockopt")}
    /\ \/ /\ \E value \in ReportedMTUs :
                /\ lastMTU' = <<value>>
                /\ senderBufferSize' = getMSSApproximation(UDPSenderAddressFamily, value)
          /\ pcMain' = "udp_transfer"
          /\ UNCHANGED procVars
       \/ /\ REPORT_ERROR_AND_EXIT(
                "failed to get MTU from UDP sender socket with getsockopt", "EXIT_FAILURE")
          /\ UNCHANGED <<lastMTU, senderBufferSize, pcMain>>
    /\ UNCHANGED <<udpState, uBuffer, udp_buffer, udp_buffer_size, buffer_chunk_size,
                   result, udpHanded, UDPSenderAddressFamily>>
    /\ UNCHANGED <<resolveVars, listenVars, reportVars, argVars, writeVars, mode, pcRecv, sockVars, ioVars>>

NextMSS == GetMSSApproximation \/ HaltProgram

SpecMSS == InitMSS /\ [][NextMSS]_vars

-----------------------------------------------------------------------------
(* main() and the transfer loops, main.cpp 262-379, with the NetworkShepherd *)
(* calls they make                                                          *)

Modes == {"tcp_connect", "tcp_listen", "tcp_keep", "udp_send", "udp_listen"}

\* the template argument as NRST_CLOSE_STDOUT_ON_FINISH at every call site
close_stdout_on_finish_Always == TRUE

\* the template argument close_stdout_on_finish, main.cpp 354, 357, 376
close_stdout_on_finish == mode \in {"tcp_connect", "tcp_listen"}

Smaller(a, b) == IF a < b THEN a ELSE b

\* the report of writeErrorAndExit / writeErrorAndCodeAndExit
Report(message) == [message |-> message]
ReportCode(message, error) == [message |-> message, errorCode |-> error]

\* the report written with the success status
Fail_WithSuccess(report) == writeErrorAndExit("main", report, "EXIT_SUCCESS")

\* the main thread writes the report and halts the program with EXIT_FAILURE
Fail(report) == writeErrorAndExit("main", report, "EXIT_FAILURE")

\* the same in the receive thread
FailInReceiveThread(report) == writeErrorAndExit("recv", report, "EXIT_FAILURE")

\* the argument errors of the command-line parser with the status each is
\* reported with: parsePort, main.cpp 66-77
parsePortErrors ==
    {[message |-> "port input string cannot be empty", code |-> "EXIT_SUCCESS"],
     [message |-> "port input string is invalid", code |-> "EXIT_SUCCESS"],
     [message |-> "port input value too large", code |-> "EXIT_SUCCESS"]}

\* parseBacklog, main.cpp 79-90
parseBacklogErrors ==
    {[message |-> "backlog input string cannot be empty", code |-> "EXIT_SUCCESS"],
     [message |-> "backlog input string is invalid", code |-> "EXIT_SUCCESS"],
     [message |-> "backlog input value too large", code |-> "EXIT_SUCCESS"]}

\* parseLetterFlags, main.cpp 92-134
parseLetterFlagsErrors ==
    {[message |-> "more than one IP version constraint specified", code |-> "EXIT_SUCCESS"],
     [message |-> "\"-l\" flag specified more than once", code |-> "EXIT_SUCCESS"],
     [message |-> "\"-k\" flag specified more than once", code |-> "EXIT_SUCCESS"],
     [message |-> "\"-u\" flag specified more than once", code |-> "EXIT_SUCCESS"],
     [message |-> "\"-b\" flag specified more than once", code |-> "EXIT_SUCCESS"],
     [message |-> "one or more invalid flags specified", code |-> "EXIT_SUCCESS"]}

\* validateFlagRelationships, main.cpp 136-161
validateFlagRelationshipsErrors ==
    {[message |-> "broadcast isn't allowed when listening", code |-> "EXIT_SUCCESS"],
     [message |-> "\"-k\" cannot be specified with \"-u\"", code |-> "EXIT_SUCCESS"],
     [message |-> "\"--backlog\" cannot be specified without \"-k\"", code |-> "EXIT_SUCCESS"],
     [message |-> "\"--source\" may not be used when listening", code |-> "EXIT_SUCCESS"],
     [message |-> "\"--port\" may not be used when listening unless the specified source port is 0",
      code |-> "EXIT_SUCCESS"],
     [message |-> "\"-k\" cannot be specified without \"-l\"", code |-> "EXIT_SUCCESS"],
     [message |-> "broadcast is only allowed when sending UDP packets", code |-> "EXIT_SUCCESS"],
     [message |-> "\"--port\" cannot be specified without \"--source\" unless the specified source port is 0",
      code |-> "EXIT_SUCCESS"]}

\* manageArgs itself, main.cpp 163-217 (the --help branch apart)
manageArgsErrors ==
    {[message |-> "\"--source\" cannot be specified more than once", code |-> "EXIT_SUCCESS"],
     [message |-> "\"--source\" requires an input value", code |-> "EXIT_SUCCESS"],
     [message |-> "\"--port\" cannot be specified more than once*", code |-> "EXIT_SUCCESS"],
     [message |-> "\"--port\" requires an input value", code |-> "EXIT_SUCCESS"],
     [message |-> "\"--backlog\" cannot be specified more than once", code |-> "EXIT_SUCCESS"],
     [message |-> "\"--backlog\" requires an input value", code |-> "EXIT_SUCCESS"],
     [message |-> "use of \"--help\" flag with other args is illegal", code |-> "EXIT_SUCCESS"],
     [message |-> "one or more invalid flags specified", code |-> "EXIT_SUCCESS"],
     [message |-> "too many non-flag args", code |-> "EXIT_SUCCESS"],
     [message |-> "not enough non-flag args", code |-> "EXIT_SUCCESS"]}

ArgumentErrors ==
    parsePortErrors \cup parseBacklogErrors \cup parseLetterFlagsErrors
        \cup validateFlagRelationshipsErrors \cup manageArgsErrors

\* the branch of main the flags select, main.cpp 341-375
ModeOfFlags(shouldListen, shouldUseUDP, shouldKeepListening) ==
    IF shouldListen
    THEN IF shouldUseUDP THEN "udp_listen"
         ELSE IF shouldKeepListening THEN "tcp_keep" ELSE "tcp_listen"
    ELSE IF shouldUseUDP THEN "udp_send" ELSE "tcp_connect"

\* manageArgs, main.cpp 163-217, called from main.cpp 337: the command line is
\* rejected at one of the error sites, or it is --help alone, or it is
\* accepted and its flags select the branch of main. validateFlagRelationships
\* lets -k through only with -l and without -u.
ManageArgs ==
    /\ Runs("main") /\ pcMain = "manageArgs"
    /\ \/ /\ \E error \in ArgumentErrors : REPORT_ERROR_AND_EXIT(error.message, error.code)
          /\ UNCHANGED <<mode, pcMain, stdoutLog>>
       \/ /\ stdoutLog' = <<"helpText">>
          /\ HaltWithoutReport("main", "EXIT_SUCCESS")
          /\ UNCHANGED <<mode, pcMain>>
       \/ /\ REPORT_ERROR_AND_EXIT("failed to write to stdout", "EXIT_FAILURE")
          /\ UNCHANGED <<mode, pcMain, stdoutLog>>
       \/ /\ \E shouldListen \in BOOLEAN, shouldUseUDP \in BOOLEAN,
                shouldKeepListening \in BOOLEAN :
                /\ shouldKeepListening => shouldListen /\ ~shouldUseUDP
                /\ mode' = ModeOfFlags(shouldListen, shouldUseUDP, shouldKeepListening)
          /\ pcMain' = "main"
          /\ UNCHANGED <<procVars, stdoutLog>>
    /\ UNCHANGED <<stdinLen, stdinPos, netLen, netPos, recvBuffer, readCalls, datagrams,
                   buffer_ptr, bytesRead, recvLog, stdoutClosed, readAfterShutdown>>
    /\ UNCHANGED <<resolveVars, listenVars, reportVars, argVars, writeVars, udpVars, pcRecv, sockVars,
                   opLog>>

\* the calls ops made on the communicator socket once the step has created it
CommCallsAfter(ops) ==
    {[op |-> op, thread |-> "main",
      on |-> SocketStatus(communicatorSocket', commOpen')] : op \in ops}

\* socket() has handed out the next communicator socket
NewCommunicator ==
    /\ communicatorSocket' = connections + 1
    /\ commOpen' = commOpen \cup {connections + 1}
    /\ connections' = connections + 1
    /\ shutdowns' = 0

\* the peer of the new connection: it will send some bytes, then close
NewPeer ==
    /\ netLen' \in 0..MaxNet
    /\ netPos' = 0
    /\ readAfterShutdown' = FALSE
    /\ UNCHANGED <<stdinLen, stdinPos, recvBuffer, readCalls, datagrams, buffer_ptr, bytesRead, recvLog,
                   stdoutLog, stdoutClosed>>

\* bind returned SOCKET_ERROR with errno error, NetworkShepherd.cpp 222-223 and
\* 286-287
BindFailed(socket, error, port) ==
    bindErrors' = Append(bindErrors, [socket |-> socket, error |-> error, port |-> port])

\* the switch of bindCommunicatorToSource, NetworkShepherd.cpp 286-310
BindErrnos == {"EACCES", "EADDRINUSE", "EINVAL"}

\* the switch without the test of the port
BindCommunicatorFailure_PortIgnored(error, sourcePort) ==
    CASE error = "EACCES" ->
            Report("permission to bind communicator to source address+port denied by local system")
      [] error = "EADDRINUSE" ->
            Report("bind communicator failed, source port occupied")
      [] OTHER -> ReportCode("bind communicator failed, unknown reason", error)

BindCommunicatorFailure(error, sourcePort) ==
    CASE error = "EACCES" ->
            Report("permission to bind communicator to source address+port denied by local system")
      [] error = "EADDRINUSE" /\ sourcePort = 0 ->
            Report("bind communicator failed, no ephemeral source ports available")
      [] error = "EADDRINUSE" /\ sourcePort # 0 ->
            Report("bind communicator failed, source port occupied")
      [] OTHER -> ReportCode("bind communicator failed, unknown reason", error)

\* the switch of createCommunicatorAndConnect, NetworkShepherd.cpp 329-392
ConnectErrnos ==
    {"EACCES", "EPERM", "EADDRNOTAVAIL", "ECONNREFUSED", "ENETUNREACH", "ENETDOWN",
     "EHOSTUNREACH", "ETIMEDOUT", "EINTR"}

ConnectFailure(error) ==
    CASE error \in {"EACCES", "EPERM"} -> Report("failed to connect, local system blocked attempt")
      [] error = "EADDRNOTAVAIL" -> Report("failed to connect, no ephemeral ports available")
      [] error = "ECONNREFUSED"  -> Report("failed to connect, connection refused")
      [] error = "ENETUNREACH"   -> Report("failed to connect, network unreachable")
      [] error = "ENETDOWN"      -> Report("failed to connect, network down")
      [] error = "EHOSTUNREACH"  -> Report("failed to connect, host unreachable")
      [] error = "ETIMEDOUT"     -> Report("failed to connect, connection attempt timed out")
      [] OTHER -> ReportCode("failed to connect, unknown reason", error)

\* the status an unreachable peer would end the process with were it counted
\* as an error of the user's input
ConnectFailureStatus_UserShaped(error) ==
    IF error \in {"ECONNREFUSED", "ENETUNREACH", "EHOSTUNREACH"}
    THEN "EXIT_SUCCESS" ELSE "EXIT_FAILURE"

\* the exit status each arm of that switch passes with its report
ConnectFailureStatus(error) == "EXIT_FAILURE"

\* the switch of createUDPSender, NetworkShepherd.cpp 573-596
UDPConnectFailure(error) ==
    CASE error \in {"EACCES", "EPERM"} -> Report("failed to connect, local system blocked attempt")
      [] error = "EADDRNOTAVAIL" -> Report("failed to connect, no ephemeral ports available")
      [] OTHER -> ReportCode("failed to connect, unknown reason", error)

\* where a creation call can fail, in the order of its statements
ConnectSteps == <<"construct_sockaddr", "socket", "source", "connect">>
SenderSteps == <<"construct_sockaddr", "socket", "broadcast", "source", "connect">>
SourceSteps == <<"construct_sockaddr", "setsockopt", "bind">>

\* the report of the step a creation call fails at. sub: the statement of
\* bindCommunicatorToSource when the step is "source"
CreationFailure(socketMessage, step, sub, error, sourcePort, connectFailure) ==
    CASE step = "construct_sockaddr" -> Report(GaiErrorMessage(error))
      [] step = "socket" -> Report(socketMessage)
      [] step = "broadcast" ->
            Report("failed to allow broadcast on UDP sender socket with setsockopt")
      [] step = "source" /\ sub = "construct_sockaddr" -> Report(GaiErrorMessage(error))
      [] step = "source" /\ sub = "setsockopt" ->
            Report("failed to enable IP_BIND_ADDRESS_NO_PORT on communicator with setsockopt")
      [] step = "source" /\ sub = "bind" -> BindCommunicatorFailure(error, sourcePort)
      [] step = "connect" -> connectFailure

ErrnosOf(step, sub, connectErrnos) ==
    CASE step = "construct_sockaddr" -> GaiErrors
      [] step = "source" /\ sub = "construct_sockaddr" -> GaiErrors
      [] step = "source" /\ sub = "bind" -> BindErrnos
      [] step = "connect" -> connectErrnos
      [] OTHER -> {"EINVAL"}

\* the socket calls createCommunicatorAndConnect / createUDPSender have made on
\* the communicator when they fail at step (sub), or succeed (step "none")
CreationCalls(step, sub, allowBroadcast, hasSource) ==
    (IF allowBroadcast /\ step \in {"broadcast", "source", "connect", "none"}
     THEN {"setsockopt"} ELSE {})
    \cup (IF hasSource /\ (step \in {"connect", "none"}
                          \/ (step = "source" /\ sub \in {"setsockopt", "bind"}))
          THEN {"setsockopt"} ELSE {})
    \cup (IF hasSource /\ (step \in {"connect", "none"} \/ (step = "source" /\ sub = "bind"))
          THEN {"bind"} ELSE {})
    \cup (IF step \in {"connect", "none"} THEN {"connect"} ELSE {})

\* NetworkShepherd::createCommunicatorAndConnect, NetworkShepherd.cpp 313-393,
\* called from main.cpp 375
CreateCommunicatorAndConnect ==
    /\ Runs("main") /\ pcMain = "main" /\ mode = "tcp_connect"
    /\ \E hasSource \in BOOLEAN, step \in {"none"} \cup {ConnectSteps[i] : i \in 1..4},
          sub \in {SourceSteps[i] : i \in 1..3} :
          /\ step = "source" => hasSource
          /\ step # "source" => sub = "bind"
          /\ IF step = "construct_sockaddr"
             THEN UNCHANGED <<communicatorSocket, commOpen, connections, shutdowns>>
             ELSE IF step = "socket"
             THEN /\ communicatorSocket' = INVALID_SOCKET
                  /\ UNCHANGED <<commOpen, connections, shutdowns>>
             ELSE NewCommunicator
          /\ opLog' = opLog \cup CommCallsAfter(CreationCalls(step, sub, FALSE, hasSource))
          /\ IF step = "none"
             THEN /\ pcMain' = "start_transfer"
                  /\ NewPeer
                  /\ UNCHANGED procVars
             ELSE /\ \E error \in ErrnosOf(step, sub, ConnectErrnos), sourcePort \in {0, 80} :
                     /\ writeErrorAndExit("main",
                            CreationFailure(
                                "failed to construct TCP connection communicator socket",
                                step, sub, error, sourcePort, ConnectFailure(error)),
                            IF step = "connect" THEN ConnectFailureStatus(error)
                            ELSE "EXIT_FAILURE")
                     /\ IF step = "source" /\ sub = "bind"
                        THEN BindFailed("communicator", error, sourcePort)
                        ELSE UNCHANGED bindErrors
                  /\ UNCHANGED <<pcMain, ioVars>>
          /\ step = "none" => UNCHANGED bindErrors
    /\ UNCHANGED <<resolveVars, listenerLog, reportVars, argVars, writeVars, udpVars, mode, pcRecv, listenerState>>

\* NetworkShepherd::createUDPSender, NetworkShepherd.cpp 549-597, called from
\* main.cpp 367
CreateUDPSender ==
    /\ Runs("main") /\ pcMain = "main" /\ mode = "udp_send"
    /\ \E hasSource \in BOOLEAN, allowBroadcast \in BOOLEAN,
          step \in {"none"} \cup {SenderSteps[i] : i \in 1..5},
          sub \in {SourceSteps[i] : i \in 1..3}, family \in SenderFamilies :
          /\ step = "source" => hasSource
          /\ step = "broadcast" => allowBroadcast
          /\ step # "source" => sub = "bind"
          /\ IF step = "construct_sockaddr"
             THEN UNCHANGED <<communicatorSocket, commOpen, connections, shutdowns,
                              UDPSenderAddressFamily>>
             ELSE /\ UDPSenderAddressFamily' = family
                  /\ IF step = "socket"
                     THEN /\ communicatorSocket' = INVALID_SOCKET
                          /\ UNCHANGED <<commOpen, connections, shutdowns>>
                     ELSE NewCommunicator
          /\ opLog' = opLog \cup
                CommCallsAfter(CreationCalls(step, sub, allowBroadcast, hasSource))
          /\ IF step = "none"
             THEN /\ pcMain' = "enableFindMSS"
                  /\ UNCHANGED procVars
             ELSE /\ \E error \in ErrnosOf(step, sub, {"EPERM", "EADDRNOTAVAIL", "EINTR"}),
                        sourcePort \in {0, 80} :
                     /\ Fail(CreationFailure(
                            "failed to create UDP sender socket",
                            step, sub, error, sourcePort, UDPConnectFailure(error)))
                     /\ IF step = "source" /\ sub = "bind"
                        THEN BindFailed("communicator", error, sourcePort)
                        ELSE UNCHANGED bindErrors
                  /\ UNCHANGED pcMain
          /\ step = "none" => UNCHANGED bindErrors
    /\ UNCHANGED <<udpState, uBuffer, udp_buffer, udp_buffer_size, buffer_chunk_size,
                   result, lastMTU, udpHanded, senderBufferSize>>
    /\ UNCHANGED <<resolveVars, listenerLog, reportVars, argVars, writeVars, mode, pcRecv, listenerState, ioVars>>

\* the switch of createListener, NetworkShepherd.cpp 222-242
BindListenerFailure(error, port) ==
    CASE error = "EACCES" ->
            Report("permission to bind TCP listener to address+port denied by local system")
      [] error = "EADDRINUSE" /\ port = 0 ->
            Report("bind TCP listener failed, no ephemeral ports available")
      [] error = "EADDRINUSE" /\ port # 0 ->
            Report("bind TCP listener failed, port occupied")
      [] OTHER -> ReportCode("bind TCP listener failed, unknown reason", error)

\* NetworkShepherd::createListener, NetworkShepherd.cpp 195-243, called from
\* main.cpp 343 and 348
CreateListener ==
    /\ Runs("main") /\ pcMain = "main" /\ mode \in {"tcp_listen", "tcp_keep", "udp_listen"}
    /\ \/ /\ listenerState' = "bound"
          /\ pcMain' = IF mode = "udp_listen" THEN "do_UDP_receive" ELSE "listen"
          /\ UNCHANGED <<procVars, bindErrors>>
       \/ /\ \E error \in GaiErrors : Fail(Report(GaiErrorMessage(error)))
          /\ UNCHANGED <<listenerState, pcMain, bindErrors>>
       \/ /\ \E message \in {"failed to create TCP listener socket",
                            "failed to disable IPV6_V6ONLY on TCP listener with setsockopt",
                            "failed to enable IPV6_V6ONLY on TCP listener with setsockopt"} :
                Fail(Report(message))
          /\ UNCHANGED <<listenerState, pcMain, bindErrors>>
       \/ /\ \E error \in BindErrnos, port \in {0, 80} :
                /\ Fail(BindListenerFailure(error, port))
                /\ BindFailed("listener", error, port)
          /\ UNCHANGED <<listenerState, pcMain>>
    /\ UNCHANGED <<communicatorSocket, commOpen, connections, shutdowns, opLog>>
    /\ UNCHANGED <<resolveVars, listenerLog, reportVars, argVars, writeVars, udpVars, mode, pcRecv, ioVars>>

\* NetworkShepherd::listen, NetworkShepherd.cpp 245-249
Listen ==
    /\ Runs("main") /\ pcMain = "listen"
    /\ \/ /\ listenerState' = "listening"
          /\ pcMain' = "accept"
          /\ UNCHANGED procVars
       \/ /\ Fail(Report("failed to listen with TCP listener socket"))
          /\ UNCHANGED <<listenerState, pcMain>>
    /\ UNCHANGED <<communicatorSocket, commOpen, connections, shutdowns, opLog>>
    /\ UNCHANGED <<resolveVars, listenVars, reportVars, argVars, writeVars, udpVars, mode, pcRecv, ioVars>>

\* the errno values of a failed ::accept that are followed, and the report of
\* each, NetworkShepherd.cpp 253-263
AcceptErrnos == {"ECONNABORTED", "EMFILE", "EINTR"}

AcceptFailure(error) ==
    IF error = "ECONNABORTED"
    THEN Report("TCP listener accept connection failed, connection aborted")
    ELSE ReportCode("TCP listener accept connection failed, unknown reason", error)

\* accept with a connection aborted before its completion answered by another
\* ::accept
Accept_Retrying ==
    /\ Runs("main") /\ pcMain = "accept" /\ connections < MaxConns
    /\ \/ /\ NewCommunicator
          /\ NewPeer
          /\ pcMain' = "start_transfer"
          /\ UNCHANGED procVars
       \/ /\ communicatorSocket' = INVALID_SOCKET
          /\ \E error \in AcceptErrnos :
                IF error = "ECONNABORTED" THEN UNCHANGED procVars
                ELSE Fail(AcceptFailure(error))
          /\ UNCHANGED <<commOpen, connections, shutdowns, pcMain, ioVars>>
    /\ UNCHANGED <<resolveVars, listenVars, reportVars, argVars, writeVars, udpVars, mode, pcRecv, listenerState, opLog>>

\* NetworkShepherd::accept, NetworkShepherd.cpp 251-265, called from
\* accept_and_handle_connection, main.cpp 332. A keep-listening run is
\* followed for MaxConns connections.
Accept ==
    /\ Runs("main") /\ pcMain = "accept" /\ connections < MaxConns
    /\ \/ /\ NewCommunicator
          /\ NewPeer
          /\ pcMain' = "start_transfer"
          /\ UNCHANGED procVars
       \/ /\ communicatorSocket' = INVALID_SOCKET
          /\ \E error \in AcceptErrnos : Fail(AcceptFailure(error))
          /\ UNCHANGED <<commOpen, connections, shutdowns, pcMain, ioVars>>
    /\ UNCHANGED <<resolveVars, listenVars, reportVars, argVars, writeVars, udpVars, mode, pcRecv, listenerState, opLog>>

\* std::thread networkReadThread(network_read_sub_transfer<...>), main.cpp 315
StartReceiveThread ==
    /\ Runs("main") /\ pcMain = "start_transfer"
    /\ pcRecv' = "read"
    /\ pcMain' = "transfer"
    /\ UNCHANGED <<resolveVars, listenVars, reportVars, argVars, procVars, writeVars, udpVars, mode, sockVars, opLog, ioVars>>

\* NetworkShepherd::shutdownCommunicatorWrite left out of the end-of-file branch
ShutdownCommunicatorWrite_Skipped ==
    /\ pcMain' = "join"
    /\ UNCHANGED <<shutdowns, opLog, procVars>>

\* NetworkShepherd::shutdownCommunicatorWrite, NetworkShepherd.cpp 695-704,
\* and the break that follows it, main.cpp 320
ShutdownCommunicatorWrite ==
    /\ opLog' = opLog \cup {CommCall("main", "shutdown")}
    /\ \/ /\ shutdowns' = shutdowns + 1
          /\ pcMain' = "join"
          /\ UNCHANGED procVars
       \/ /\ Fail(Report("failed to shutdown communicator socket write"))
          /\ UNCHANGED <<shutdowns, pcMain>>

\* one turn of the loop of do_data_transfer_over_connection_and_close,
\* main.cpp 318-323, up to the call of write: the read of standard input
ReadStdin ==
    /\ Runs("main") /\ pcMain = "transfer" /\ writeState # "running"
    /\ \/ /\ stdinPos < stdinLen
          /\ \E n \in 1..Smaller(BUFSIZ, stdinLen - stdinPos) :
                /\ WriteCall(Bytes(Stream(stdinLen), stdinPos, n))
                /\ stdinPos' = stdinPos + n
          /\ UNCHANGED <<pcMain, shutdowns, opLog, procVars>>
       \/ /\ stdinPos = stdinLen
          /\ ShutdownCommunicatorWrite
          /\ UNCHANGED <<writeVars, stdinPos>>
       \/ /\ Fail(Report("failed to read from stdin"))
          /\ UNCHANGED <<writeVars, stdinPos, pcMain, shutdowns, opLog>>
    /\ UNCHANGED <<stdinLen, netLen, netPos, recvBuffer, readCalls, datagrams, buffer_ptr, bytesRead, recvLog,
                   stdoutLog, stdoutClosed, readAfterShutdown>>
    /\ UNCHANGED <<resolveVars, listenVars, reportVars, argVars, udpVars, mode, pcRecv, listenerState,
                   communicatorSocket, commOpen, connections>>

\* networkReadThread.join() returning at once, whatever the thread is doing
Join_NoWait ==
    /\ Runs("main") /\ pcMain = "join"
    /\ pcMain' = "close"
    /\ UNCHANGED <<resolveVars, listenVars, reportVars, argVars, procVars, writeVars, udpVars, mode, pcRecv, sockVars,
                   opLog, ioVars>>

\* networkReadThread.join(), main.cpp 325
Join ==
    /\ Runs("main") /\ pcMain = "join" /\ pcRecv = "done"
    /\ pcRecv' = "joined"
    /\ pcMain' = "close"
    /\ UNCHANGED <<resolveVars, listenVars, reportVars, argVars, procVars, writeVars, udpVars, mode, sockVars, opLog, ioVars>>

\* closeCommunicator followed by closeListener in every listening mode
AfterClose_LeavesLoop ==
    CASE mode \in {"tcp_keep", "tcp_listen"} -> "closeListener"
      [] OTHER                               -> "release"

\* where main goes on after closeCommunicator, main.cpp 354, 359, 370, 378
AfterClose ==
    CASE mode = "tcp_keep"   -> "accept"
      [] mode = "tcp_listen" -> "closeListener"
      [] OTHER               -> "release"

\* closeCommunicator that leaves the socket open
CloseCommunicator_Leak ==
    /\ Runs("main") /\ pcMain = "close"
    /\ opLog' = opLog \cup {CommCall("main", "close")}
    /\ pcMain' = AfterClose
    /\ UNCHANGED <<resolveVars, listenVars, reportVars, argVars, procVars, writeVars, udpVars, mode, pcRecv, sockVars, ioVars>>

\* NetworkShepherd::closeCommunicator, NetworkShepherd.cpp 706-713, called
\* from main.cpp 283 and 327
CloseCommunicator ==
    /\ Runs("main") /\ pcMain = "close"
    /\ opLog' = opLog \cup {CommCall("main", "close")}
    /\ \/ /\ commOpen' = commOpen \ {communicatorSocket}
          /\ pcMain' = AfterClose
          /\ UNCHANGED procVars
       \/ /\ Fail(Report("failed to close communicator socket"))
          /\ UNCHANGED <<commOpen, pcMain>>
    /\ UNCHANGED <<listenerState, communicatorSocket, connections, shutdowns>>
    /\ UNCHANGED <<resolveVars, listenVars, reportVars, argVars, writeVars, udpVars, mode, pcRecv, ioVars>>

\* NetworkShepherd::closeListener, NetworkShepherd.cpp 715-722, called from
\* main.cpp 359
CloseListener ==
    /\ Runs("main") /\ pcMain = "closeListener"
    /\ \/ /\ listenerState' = "closed"
          /\ pcMain' = "release"
          /\ UNCHANGED procVars
       \/ /\ Fail(Report("failed to close listener socket"))
          /\ UNCHANGED <<listenerState, pcMain>>
    /\ UNCHANGED <<communicatorSocket, commOpen, connections, shutdowns, opLog>>
    /\ UNCHANGED <<resolveVars, listenVars, reportVars, argVars, writeVars, udpVars, mode, pcRecv, ioVars>>

\* NetworkShepherd::release (nothing to do outside Windows) and the return
\* from main, main.cpp 361-363, 370-372, 378-379
Release ==
    /\ Runs("main") /\ pcMain = "release"
    /\ pcMain' = "returned"
    /\ exitCode' = "EXIT_SUCCESS"
    /\ UNCHANGED <<stderrLog, halting, resolveVars, listenVars, reportVars, argVars, writeVars, udpVars, mode, pcRecv, sockVars,
                   opLog, ioVars>>

\* the bytes the peer of connection c sends: each is known by its connection
\* and its place in that connection's stream
PeerStream(c, n) == [i \in 1..n |-> <<c, i>>]

\* the switch of NetworkShepherd::read, NetworkShepherd.cpp 405-434 (POSIX
\* build: the ETIMEDOUT label has no statement of its own and falls into default)
ReadErrnos == {"ECONNRESET", "ETIMEDOUT", "EIO"}

ReadFailure(error) ==
    IF error = "ECONNRESET"
    THEN Report("failed to read from communicator socket, connection reset")
    ELSE ReportCode("failed to read from communicator socket, unknown reason", error)

\* SOCKET_ERROR handed back to the caller as the count
ReadError_Returned ==
    /\ bytesRead' = -1
    /\ pcRecv' = "write"
    /\ UNCHANGED <<recvBuffer, netPos, recvLog, buffer_ptr, readAfterShutdown,
                   stdoutClosed, procVars>>

\* NetworkShepherd::read when ::read returned SOCKET_ERROR, lines 405-434:
\* the report is written and the function does not return
ReadError ==
    /\ \E error \in ReadErrnos : FailInReceiveThread(ReadFailure(error))
    /\ UNCHANGED <<recvBuffer, bytesRead, netPos, recvLog, buffer_ptr,
                   readAfterShutdown, stdoutClosed, pcRecv>>

\* network_read_sub_transfer, main.cpp 294-302: NetworkShepherd::read
\* (NetworkShepherd.cpp 398-437) and what follows a count of zero
RecvRead ==
    /\ Runs("recv") /\ pcRecv = "read"
    /\ opLog' = opLog \cup {CommCall("recv", "read")}
    /\ readCalls' = 1
    /\ \/ /\ netPos < netLen
          /\ \E n \in 1..Smaller(BUFSIZ, netLen - netPos) :
                /\ recvBuffer' = Bytes(PeerStream(communicatorSocket, netLen), netPos, n)
                /\ bytesRead' = n
                /\ netPos' = netPos + n
                /\ recvLog' = recvLog \o
                                Bytes(PeerStream(communicatorSocket, netLen), netPos, n)
          /\ buffer_ptr' = 0
          /\ readAfterShutdown' = (readAfterShutdown \/ shutdowns > 0)
          /\ pcRecv' = "write"
          /\ UNCHANGED <<stdoutClosed, procVars>>
       \/ /\ netPos = netLen
          /\ bytesRead' = 0
          /\ \/ /\ stdoutClosed' = close_stdout_on_finish
                /\ pcRecv' = "done"
                /\ UNCHANGED procVars
             \/ /\ close_stdout_on_finish
                /\ FailInReceiveThread(Report("failed to close stdout fd"))
                /\ UNCHANGED <<stdoutClosed, pcRecv>>
          /\ UNCHANGED <<recvBuffer, netPos, recvLog, buffer_ptr, readAfterShutdown>>
       \/ ReadError
    /\ UNCHANGED <<stdinLen, stdinPos, netLen, stdoutLog, datagrams>>
    /\ UNCHANGED <<resolveVars, listenVars, reportVars, argVars, writeVars, udpVars, mode, pcMain, sockVars>>

\* one turn of the inner loop of network_read_sub_transfer, main.cpp 303-309
RecvWriteStdout ==
    /\ Runs("recv") /\ pcRecv = "write"
    /\ \/ /\ \E bytesWritten \in 1..bytesRead :
                /\ stdoutLog' = stdoutLog \o Bytes(recvBuffer, buffer_ptr, bytesWritten)
                /\ IF bytesWritten = bytesRead
                   THEN pcRecv' = "read" /\ UNCHANGED <<buffer_ptr, bytesRead>>
                   ELSE /\ buffer_ptr' = buffer_ptr + bytesWritten
                        /\ bytesRead' = bytesRead - bytesWritten
                        /\ UNCHANGED pcRecv
          /\ UNCHANGED procVars
       \/ /\ FailInReceiveThread(Report("failed to write to stdout"))
          /\ UNCHANGED <<stdoutLog, buffer_ptr, bytesRead, pcRecv>>
    /\ UNCHANGED <<stdinLen, stdinPos, netLen, netPos, recvBuffer, readCalls, datagrams, recvLog, stdoutClosed,
                   readAfterShutdown>>
    /\ UNCHANGED <<resolveVars, listenVars, reportVars, argVars, writeVars, udpVars, mode, pcMain, sockVars, opLog>>

\* NetworkShepherd::enableFindMSS, NetworkShepherd.cpp 640-660, called from
\* main.cpp 263
EnableFindMSS ==
    /\ Runs("main") /\ pcMain = "enableFindMSS"
    /\ opLog' = opLog \cup {CommCall("main", "setsockopt")}
    /\ \/ /\ pcMain' = "getMSSApproximation"
          /\ UNCHANGED procVars
       \/ /\ Fail(Report("failed to enable MTU discovery on UDP sender socket with setsockopt"))
          /\ UNCHANGED pcMain
    /\ UNCHANGED <<resolveVars, listenVars, reportVars, argVars, writeVars, udpVars, mode, pcRecv, sockVars, ioVars>>

\* the buffer of do_UDP_send_and_close, main.cpp 265-267: its size is
\* getMSSApproximation()
AllocateSenderBuffer ==
    /\ Runs("main") /\ pcMain = "getMSSApproximation"
    /\ opLog' = opLog \cup {CommCall("main", "getsockopt")}
    /\ \/ /\ \E value \in MTUValues(UDPSenderAddressFamily) :
                senderBufferSize' = getMSSApproximation(UDPSenderAddressFamily, value)
          /\ pcMain' = "udp_transfer"
          /\ UNCHANGED procVars
       \/ /\ \E message \in {"failed to get MTU from UDP sender socket with getsockopt",
                            "failed to allocate buffer"} : Fail(Report(message))
          /\ UNCHANGED <<senderBufferSize, pcMain>>
    /\ UNCHANGED <<udpState, uBuffer, udp_buffer, udp_buffer_size, buffer_chunk_size,
                   result, lastMTU, udpHanded, UDPSenderAddressFamily>>
    /\ UNCHANGED <<resolveVars, listenVars, reportVars, argVars, writeVars, mode, pcRecv, sockVars, ioVars>>

\* the read of standard input in the loop of do_UDP_send_and_close, main.cpp
\* 270-274, up to the call of writeUDPAndFindMSS
UdpReadStdin ==
    /\ Runs("main") /\ pcMain = "udp_transfer" /\ udpState = "idle"
    /\ \/ /\ stdinPos < stdinLen
          /\ \E n \in 1..Smaller(senderBufferSize, stdinLen - stdinPos) :
                /\ UdpCall(Bytes(Stream(stdinLen), stdinPos, n))
                /\ stdinPos' = stdinPos + n
          /\ UNCHANGED <<pcMain, procVars>>
       \/ /\ stdinPos = stdinLen
          /\ pcMain' = "close"
          /\ UNCHANGED <<udpState, uBuffer, udp_buffer, udp_buffer_size, buffer_chunk_size,
                         result, lastMTU, udpHanded, stdinPos, procVars>>
       \/ /\ Fail(Report("failed to read from stdin"))
          /\ UNCHANGED <<udpState, uBuffer, udp_buffer, udp_buffer_size, buffer_chunk_size,
                         result, lastMTU, udpHanded, stdinPos, pcMain>>
    /\ UNCHANGED <<UDPSenderAddressFamily, senderBufferSize>>
    /\ UNCHANGED <<stdinLen, netLen, netPos, recvBuffer, readCalls, datagrams, buffer_ptr, bytesRead, recvLog,
                   stdoutLog, stdoutClosed, readAfterShutdown>>
    /\ UNCHANGED <<resolveVars, listenVars, reportVars, argVars, writeVars, mode, pcRecv, sockVars, opLog>>

\* the loop going on with the buffer it has, whatever the call returned
UdpAdoptMSS_KeepsSize ==
    /\ Runs("main") /\ pcMain = "udp_transfer" /\ udpState = "returned"
    /\ \/ /\ udpState' = "idle"
          /\ senderBufferSize' = senderBufferSize
          /\ UNCHANGED procVars
       \/ /\ result # 0
          /\ Fail(Report("failed to reallocate buffer"))
          /\ UNCHANGED <<udpState, senderBufferSize>>
    /\ UNCHANGED <<uBuffer, udp_buffer, udp_buffer_size, buffer_chunk_size, result, lastMTU,
                   udpHanded, UDPSenderAddressFamily>>
    /\ UNCHANGED <<resolveVars, listenVars, reportVars, argVars, writeVars, progVars, ioVars>>

\* what the loop of do_UDP_send_and_close does with the value
\* writeUDPAndFindMSS returned, main.cpp 274-280
UdpAdoptMSS ==
    /\ Runs("main") /\ pcMain = "udp_transfer" /\ udpState = "returned"
    /\ \/ /\ udpState' = "idle"
          /\ senderBufferSize' = IF result = 0 THEN senderBufferSize ELSE result
          /\ UNCHANGED procVars
       \/ /\ result # 0
          /\ Fail(Report("failed to reallocate buffer"))
          /\ UNCHANGED <<udpState, senderBufferSize>>
    /\ UNCHANGED <<uBuffer, udp_buffer, udp_buffer_size, buffer_chunk_size, result, lastMTU,
                   udpHanded, UDPSenderAddressFamily>>
    /\ UNCHANGED <<resolveVars, listenVars, reportVars, argVars, writeVars, progVars, ioVars>>

\* the payload of the k-th datagram: each byte is known by its datagram and
\* its place in it
Datagram(k, n) == [i \in 1..n |-> <<"datagram", k, i>>]

\* the loop of do_UDP_receive left when readUDP returns zero, as a stream's
\* loop is
UdpReceive_ZeroEndsLoop ==
    /\ Runs("main") /\ pcMain = "do_UDP_receive" /\ datagrams < MaxDatagrams
    /\ \/ /\ \E n \in 0..MaxNet :
                /\ bytesRead' = n
                /\ recvBuffer' = IF n = 0 THEN recvBuffer ELSE Datagram(datagrams + 1, n)
                /\ recvLog' = recvLog \o Datagram(datagrams + 1, n)
                /\ buffer_ptr' = IF n = 0 THEN buffer_ptr ELSE 0
                /\ pcMain' = IF n = 0 THEN "returned" ELSE "udp_write_stdout"
          /\ datagrams' = datagrams + 1
          /\ UNCHANGED procVars
       \/ /\ Fail(Report("failed to recv from UDP listener socket, unknown reason"))
          /\ UNCHANGED <<bytesRead, recvBuffer, recvLog, buffer_ptr, pcMain, datagrams>>
    /\ UNCHANGED <<stdinLen, stdinPos, netLen, netPos, readCalls, stdoutLog, stdoutClosed,
                   readAfterShutdown>>
    /\ UNCHANGED <<resolveVars, listenVars, reportVars, argVars, writeVars, udpVars, mode, pcRecv,
                   sockVars, opLog>>

\* one turn of the loop of do_UDP_receive, main.cpp 248-251:
\* NetworkShepherd::readUDP (NetworkShepherd.cpp 543-547) and the continue
\* that follows a count of zero
UdpReceive ==
    /\ Runs("main") /\ pcMain = "do_UDP_receive" /\ datagrams < MaxDatagrams
    /\ \/ /\ \E n \in 0..MaxNet :
                /\ bytesRead' = n
                /\ recvBuffer' = IF n = 0 THEN recvBuffer ELSE Datagram(datagrams + 1, n)
                /\ recvLog' = recvLog \o Datagram(datagrams + 1, n)
                /\ buffer_ptr' = IF n = 0 THEN buffer_ptr ELSE 0
                /\ pcMain' = IF n = 0 THEN "do_UDP_receive" ELSE "udp_write_stdout"
          /\ datagrams' = datagrams + 1
          /\ UNCHANGED procVars
       \/ /\ Fail(Report("failed to recv from UDP listener socket, unknown reason"))
          /\ UNCHANGED <<bytesRead, recvBuffer, recvLog, buffer_ptr, pcMain, datagrams>>
    /\ UNCHANGED <<stdinLen, stdinPos, netLen, netPos, readCalls, stdoutLog, stdoutClosed,
                   readAfterShutdown>>
    /\ UNCHANGED <<resolveVars, listenVars, reportVars, argVars, writeVars, udpVars, mode, pcRecv,
                   sockVars, opLog>>

\* one turn of the inner loop of do_UDP_receive, main.cpp 252-258
UdpWriteStdout ==
    /\ Runs("main") /\ pcMain = "udp_write_stdout"
    /\ \/ /\ \E bytesWritten \in 1..bytesRead :
                /\ stdoutLog' = stdoutLog \o Bytes(recvBuffer, buffer_ptr, bytesWritten)
                /\ IF bytesWritten = bytesRead
                   THEN pcMain' = "do_UDP_receive" /\ UNCHANGED <<buffer_ptr, bytesRead>>
                   ELSE /\ buffer_ptr' = buffer_ptr + bytesWritten
                        /\ bytesRead' = bytesRead - bytesWritten
                        /\ UNCHANGED pcMain
          /\ UNCHANGED procVars
       \/ /\ Fail(Report("failed to write to stdout"))
          /\ UNCHANGED <<stdoutLog, buffer_ptr, bytesRead, pcMain>>
    /\ UNCHANGED <<stdinLen, stdinPos, netLen, netPos, recvBuffer, readCalls, datagrams,
                   recvLog, stdoutClosed, readAfterShutdown>>
    /\ UNCHANGED <<resolveVars, listenVars, reportVars, argVars, writeVars, udpVars, mode, pcRecv,
                   sockVars, opLog>>

\* main() is entered with some command line and some standard input
Init ==
    /\ ProcInit /\ ResolveIdle /\ ListenIdle /\ ReportIdle /\ ArgsIdle /\ WriteIdle /\ UdpIdle
    /\ mode = NULL
    /\ pcMain = "manageArgs" /\ pcRecv = "none"
    /\ listenerState = "uncreated" /\ communicatorSocket = NoSocket
    /\ commOpen = {} /\ connections = 0 /\ shutdowns = 0 /\ opLog = {}
    /\ stdinLen \in 0..MaxStdin
    /\ stdinPos = 0 /\ netLen = 0 /\ netPos = 0
    /\ recvBuffer = <<>> /\ readCalls = 0 /\ datagrams = 0 /\ buffer_ptr = 0 /\ bytesRead = 0
    /\ recvLog = <<>> /\ stdoutLog = <<>> /\ stdoutClosed = FALSE
    /\ readAfterShutdown = FALSE

Next ==
    \/ ManageArgs
    \/ CreateCommunicatorAndConnect
    \/ CreateUDPSender
    \/ CreateListener
    \/ Listen
    \/ Accept
    \/ StartReceiveThread
    \/ ReadStdin
    \/ WriteSend
    \/ Join
    \/ CloseCommunicator
    \/ CloseListener
    \/ Release
    \/ RecvRead
    \/ RecvWriteStdout
    \/ EnableFindMSS
    \/ AllocateSenderBuffer
    \/ UdpReadStdin
    \/ UdpSend
    \/ UdpAdoptMSS
    \/ UdpReceive
    \/ UdpWriteStdout
    \/ HaltProgram

Spec == Init /\ [][Next]_vars

-----------------------------------------------------------------------------
(* A lone call of NetworkShepherd::createListener followed by listen,      *)
(* NetworkShepherd.cpp 195-249, with the construct_sockaddr call it makes   *)

\* construct_sockaddr<resolve_interfaces> as a whole, NetworkShepherd.cpp
\* 74-193: the interface enumeration, then the lookup when it found nothing
construct_sockaddr(resolve_interfaces, node, port, constraint, env, err, garbage) ==
    LET first == construct_sockaddr_interfaces(resolve_interfaces, node, port,
                                               constraint, env)
    IN  IF first.kind = "lookup"
        THEN construct_sockaddr_lookup(resolve_interfaces, node, port, constraint,
                                       env, err, garbage)
        ELSE first

\* the option call made whatever the constraint, with the disabler
V6OnlySetting_AlwaysDisable(constraint, family) == <<FALSE>>

\* switch (listenerIPVersionConstraint), lines 205-220: the value IPV6_V6ONLY
\* is set to, <<>> when setsockopt is not called
V6OnlySetting(constraint, family) ==
    CASE constraint = "NONE" -> IF family = "AF_INET6" THEN <<FALSE>> ELSE <<>>
      [] constraint = "FOUR" -> <<>>
      [] constraint = "SIX"  -> <<TRUE>>

\* the calls on the listener socket
SocketCall(ok) == [op |-> "socket", ok |-> ok]
V6OnlyCall(value, ok) ==
    [op |-> "setsockopt", option |-> "IPV6_V6ONLY", value |-> value, ok |-> ok]
BindCall(ok) == [op |-> "bind", ok |-> ok]
ListenCall(ok) == [op |-> "listen", ok |-> ok]

\* where createListener can fail once the address is resolved
ListenerSteps == {"socket", "setsockopt", "bind"}

\* createListener with the socket created before the address is resolved
createListener_SocketFirst(resolved, port, constraint, failAt, error) ==
    IF resolved.kind = "exit"
    THEN [log |-> <<SocketCall(TRUE)>>, report |-> <<Report(resolved.message)>>]
    ELSE [log |-> <<SocketCall(TRUE), BindCall(TRUE)>>, report |-> <<>>]

\* NetworkShepherd::createListener, lines 195-243. resolved: what
\* construct_sockaddr came to; failAt: the call that fails ("none": no call
\* does); error: errno after a failed bind. The result: the calls made on the
\* listener socket and the report written (none when the function returns).
createListener(resolved, port, constraint, failAt, error) ==
    IF resolved.kind = "exit"
    THEN [log |-> <<>>, report |-> <<Report(resolved.message)>>]
    ELSE LET setting == V6OnlySetting(constraint, resolved.addr.sa_family)
             option(ok) == IF setting = <<>> THEN <<>>
                           ELSE <<V6OnlyCall(setting[1], ok)>>
         IN  IF failAt = "socket"
             THEN [log |-> <<SocketCall(FALSE)>>,
                   report |-> <<Report("failed to create TCP listener socket")>>]
             ELSE IF failAt = "setsockopt" /\ setting # <<>>
             THEN [log |-> <<SocketCall(TRUE)>> \o option(FALSE),
                   report |-> <<Report(
                       IF setting[1]
                       THEN "failed to enable IPV6_V6ONLY on TCP listener with setsockopt"
                       ELSE "failed to disable IPV6_V6ONLY on TCP listener with setsockopt")>>]
             ELSE IF failAt = "bind"
             THEN [log |-> <<SocketCall(TRUE)>> \o option(TRUE) \o <<BindCall(FALSE)>>,
                   report |-> <<BindListenerFailure(error, port)>>]
             ELSE [log |-> <<SocketCall(TRUE)>> \o option(TRUE) \o <<BindCall(TRUE)>>,
                   report |-> <<>>]

MaxListenerIfs == 2     \* longest list getifaddrs hands back to createListener

\* the interface entries that carry an IP address
IPIfaEntries == {entry \in IfaEntries : entry.sa_family \in {"AF_INET", "AF_INET6"}}

ListenerEnvs ==
    [getifaddrsOK : BOOLEAN,
     interfaceAddresses : SeqsUpTo(IPIfaEntries, MaxListenerIfs),
     numericNode : BOOLEAN,
     addressInfo : SeqsUpTo(CandidateFamilies, MaxCands)]

\* createListener(address, port, SOCK_STREAM, constraint): outside Windows
\* the address is resolved with CSA_RESOLVE_INTERFACES, line 197
ListenerCalls ==
    [resolve_interfaces : {TRUE}, node : {NodeName}, port : {0, 80},
     constraint : IPVersionConstraint]

InitListener ==
    /\ csaCall \in ListenerCalls
    /\ csaEnv \in {e \in ListenerEnvs : e.getifaddrsOK <=> e.interfaceAddresses # <<>>}
    /\ csaResult = Pending
    /\ listenerLog = <<>> /\ bindErrors = <<>>
    /\ ReportIdle /\ ArgsIdle /\ ProcInit /\ WriteIdle /\ UdpIdle /\ IoIdle
    /\ mode = "tcp_listen" /\ pcMain = "createListener" /\ pcRecv = "none"
    /\ listenerState = "uncreated" /\ communicatorSocket = NoSocket
    /\ commOpen = {} /\ connections = 0 /\ shutdowns = 0 /\ opLog = {}

\* the call of createListener, main.cpp 348. The lookup's own failure and the
\* content of an unwritten result are drawn only where the lookup is reached,
\* the failing call and errno only where a socket call is reached.
ListenerCreate ==
    /\ Runs("main") /\ pcMain = "createListener"
    /\ LET first == construct_sockaddr_interfaces(csaCall.resolve_interfaces,
                        csaCall.node, csaCall.port, csaCall.constraint, csaEnv)
       IN  \E err \in IF first.kind = "lookup" THEN GaiErrors \cup {"OK"} ELSE {"OK"},
              garbage \in IF first.kind = "lookup" THEN CandidateFamilies ELSE {"AF_INET"} :
              LET resolved == construct_sockaddr(csaCall.resolve_interfaces,
                                  csaCall.node, csaCall.port, csaCall.constraint,
                                  csaEnv, err, garbage)
              IN  /\ csaResult' = resolved
                  /\ \E failAt \in IF resolved.kind = "exit" THEN {"none"}
                                   ELSE ListenerSteps \cup {"none"} :
                     \E error \in IF failAt = "bind" THEN BindErrnos ELSE {"EINVAL"} :
                        LET outcome == createListener(resolved, csaCall.port,
                                           csaCall.constraint, failAt, error)
                        IN  /\ failAt = "setsockopt" =>
                                 \E i \in 1..Len(outcome.log) :
                                     outcome.log[i].op = "setsockopt"
                            /\ listenerLog' = outcome.log
                            /\ IF failAt = "bind"
                               THEN BindFailed("listener", error, csaCall.port)
                               ELSE UNCHANGED bindErrors
                            /\ IF outcome.report = <<>>
                               THEN /\ listenerState' = "bound"
                                    /\ pcMain' = "listen"
                                    /\ UNCHANGED procVars
                               ELSE /\ Fail(outcome.report[1])
                                    /\ UNCHANGED <<listenerState, pcMain>>
    /\ UNCHANGED <<csaCall, csaEnv, reportVars, argVars, writeVars, udpVars, mode, pcRecv, communicatorSocket,
                   commOpen, connections, shutdowns, opLog, ioVars>>

\* the call of listen, main.cpp 349
ListenerListen ==
    /\ Runs("main") /\ pcMain = "listen"
    /\ UNCHANGED bindErrors
    /\ \/ /\ listenerLog' = Append(listenerLog, ListenCall(TRUE))
          /\ listenerState' = "listening"
          /\ pcMain' = "accept"
          /\ UNCHANGED procVars
       \/ /\ listenerLog' = Append(listenerLog, ListenCall(FALSE))
          /\ Fail(Report("failed to listen with TCP listener socket"))
          /\ UNCHANGED <<listenerState, pcMain>>
    /\ UNCHANGED <<resolveVars, reportVars, argVars, writeVars, udpVars, mode, pcRecv, communicatorSocket,
                   commOpen, connections, shutdowns, opLog, ioVars>>

NextListener == ListenerCreate \/ ListenerListen \/ HaltProgram

SpecListener == InitListener /\ [][NextListener]_vars

-----------------------------------------------------------------------------
(* A lone call of writeErrorAndCodeAndExit, error_reporting.h 22-51 *)

MAX_DIGITS_IN_SIGNED_INT32 == 11

MaxErrorCode == 12      \* the codes from -MaxErrorCode to MaxErrorCode are followed

\* the largest int the model checker can hold is INT_MAX; the most negative
\* code followed is -INT_MAX, which has as many digits as INT_MIN
INT_MAX == 2147483647

ErrorCodes ==
    (-MaxErrorCode..MaxErrorCode) \cup {104, -104, 32767, -32768, INT_MAX, -INT_MAX}

\* digit + '0'
DigitChar(digit) == <<"0", "1", "2", "3", "4", "5", "6", "7", "8", "9">>[digit + 1]

\* bool to int: the promotion of errorCode_negative in -1 * errorCode_negative
BoolToInt(b) == IF b THEN 1 ELSE 0

\* (-1 * errorCode_negative), line 30: -1 for a negative code, 0 otherwise
NegationFactor(negative) == -1 * BoolToInt(negative)

UnknownReason == "failed to connect, unknown reason"

InitReport ==
    /\ reportState = "entered"
    /\ errorCode \in ErrorCodes
    /\ errorCode_negative = FALSE /\ positive_errorCode = 0
    /\ digits = [i \in 1..MAX_DIGITS_IN_SIGNED_INT32 |-> "?"]
    /\ digits_ptr = 0
    /\ ProcInit /\ ResolveIdle /\ ListenIdle /\ ArgsIdle /\ WriteIdle /\ UdpIdle /\ IoIdle
    /\ ProgInCall("tcp_connect", "createCommunicatorAndConnect")

\* lines 26-30: the message is written by the last step together with the
\* digits; the cursor is put behind the buffer and the code is made positive
ReportEnter ==
    /\ Runs("main") /\ reportState = "entered"
    /\ digits_ptr' = MAX_DIGITS_IN_SIGNED_INT32
    /\ errorCode_negative' = (errorCode < 0)
    /\ positive_errorCode' = errorCode * NegationFactor(errorCode < 0)
    /\ reportState' = "digits"
    /\ UNCHANGED <<errorCode, digits>>
    /\ UNCHANGED <<resolveVars, listenVars, argVars, procVars, writeVars, udpVars, progVars, ioVars>>

\* lines 35-43: one digit is stored in front of the cursor, in the unrolled
\* turn or in a turn of the loop; a store in front of the buffer is followed
\* no further
ReportDigit ==
    /\ Runs("main") /\ reportState = "digits"
    /\ IF digits_ptr = 0
       THEN /\ reportState' = "overrun"
            /\ UNCHANGED <<digits, digits_ptr, positive_errorCode>>
       ELSE /\ digits_ptr' = digits_ptr - 1
            /\ digits' = [digits EXCEPT ![digits_ptr] = DigitChar(positive_errorCode % 10)]
            /\ positive_errorCode' = positive_errorCode \div 10
            /\ reportState' = IF positive_errorCode \div 10 # 0 THEN "digits" ELSE "sign"
    /\ UNCHANGED <<errorCode, errorCode_negative>>
    /\ UNCHANGED <<resolveVars, listenVars, argVars, procVars, writeVars, udpVars, progVars, ioVars>>

\* line 45
ReportSign ==
    /\ Runs("main") /\ reportState = "sign"
    /\ IF ~errorCode_negative
       THEN /\ reportState' = "write"
            /\ UNCHANGED <<digits, digits_ptr>>
       ELSE IF digits_ptr = 0
       THEN /\ reportState' = "overrun"
            /\ UNCHANGED <<digits, digits_ptr>>
       ELSE /\ digits_ptr' = digits_ptr - 1
            /\ digits' = [digits EXCEPT ![digits_ptr] = "-"]
            /\ reportState' = "write"
    /\ UNCHANGED <<errorCode, errorCode_negative, positive_errorCode>>
    /\ UNCHANGED <<resolveVars, listenVars, argVars, procVars, writeVars, udpVars, progVars, ioVars>>

\* lines 24, 47-50: the message, the characters from the cursor to the end of
\* the buffer and the closing bracket are on standard error, and the thread
\* calls halt_program
ReportWrite ==
    /\ Runs("main") /\ reportState = "write"
    /\ writeErrorAndExit("main",
           [message |-> UnknownReason,
            errorCode |-> SubSeq(digits, digits_ptr + 1, MAX_DIGITS_IN_SIGNED_INT32)],
           "EXIT_FAILURE")
    /\ reportState' = "written"
    /\ UNCHANGED <<errorCode, errorCode_negative, positive_errorCode, digits, digits_ptr>>
    /\ UNCHANGED <<resolveVars, listenVars, argVars, writeVars, udpVars, progVars, ioVars>>

NextReport == ReportEnter \/ ReportDigit \/ ReportSign \/ ReportWrite \/ HaltProgram

SpecReport == InitReport /\ [][NextReport]_vars

-----------------------------------------------------------------------------
(* The source address of a communicator: the if (sourceAddress) blocks of    *)
(* createCommunicatorAndConnect and createUDPSender, NetworkShepherd.cpp     *)
(* 318-327 and 563-571, with bindCommunicatorToSource, 267-311               *)

\* the source resolved under the constraint of the command line as it is
SourceConstraint_AsGiven(constraint, family) == <<constraint>>

\* the constraint bindCommunicatorToSource is called with, <<>> when it is not
\* called: under NONE the switch on the family of the destination, lines
\* 319-324 and 564-569, which has no default
SourceConstraint(constraint, family) ==
    IF constraint = "NONE"
    THEN CASE family = "AF_INET"  -> <<"FOUR">>
           [] family = "AF_INET6" -> <<"SIX">>
           [] OTHER -> <<>>
    ELSE <<constraint>>

\* what a host database can answer for the destination
DestinationEnvs ==
    [getifaddrsOK : {FALSE}, interfaceAddresses : {<<>>}, numericNode : {FALSE},
     addressInfo : SeqsUpTo(CandidateFamilies, MaxCands)]

\* the ss_family construct_sockaddr<CSA_RESOLVE_HOSTNAMES> can return for the
\* destination under the constraint, lines 314 and 550: the communicator
\* socket is created with it, lines 316 and 553
DestinationFamilies(constraint) ==
    LET outcomes == {construct_sockaddr(FALSE, OtherName, 80, constraint, env, "OK", garbage) :
                        env \in DestinationEnvs, garbage \in CandidateFamilies}
    IN  {outcome.addr.sa_family : outcome \in {o \in outcomes : o.kind \in {"addr", "uninit"}}}

\* (sourceAddress, sourcePort, constraint) of a call with a source address
SourceCalls ==
    [resolve_interfaces : {TRUE}, node : {NodeName}, port : {0, 80},
     constraint : IPVersionConstraint]

\* the destination is resolved and the communicator socket created; the
\* family of both is kept in UDPSenderAddressFamily (peerAddress.ss_family in
\* createCommunicatorAndConnect)
InitSource ==
    /\ csaCall \in SourceCalls
    /\ csaEnv \in {e \in ListenerEnvs : e.getifaddrsOK <=> e.interfaceAddresses # <<>>}
    /\ csaResult = Pending
    /\ UDPSenderAddressFamily \in DestinationFamilies(csaCall.constraint)
    /\ udpState = "idle" /\ uBuffer = <<>> /\ udp_buffer = 0 /\ udp_buffer_size = 0
    /\ buffer_chunk_size = 0 /\ result = 0 /\ lastMTU = <<>> /\ udpHanded = <<>>
    /\ senderBufferSize = 0
    /\ mode \in {"tcp_connect", "udp_send"} /\ pcMain = "source" /\ pcRecv = "none"
    /\ listenerState = "uncreated" /\ communicatorSocket = 1
    /\ commOpen = {1} /\ connections = 1 /\ shutdowns = 0 /\ opLog = {}
    /\ ProcInit /\ ListenIdle /\ ReportIdle /\ ArgsIdle /\ WriteIdle /\ IoIdle

\* the block: the source is resolved and bound, or passed over
BindSource ==
    /\ Runs("main") /\ pcMain = "source"
    /\ LET passed == SourceConstraint(csaCall.constraint, UDPSenderAddressFamily)
       IN  IF passed = <<>>
           THEN /\ pcMain' = "connect"
                /\ UNCHANGED <<csaResult, opLog, bindErrors, procVars>>
           ELSE LET first == construct_sockaddr_interfaces(TRUE, csaCall.node,
                                 csaCall.port, passed[1], csaEnv)
                IN  \E err \in IF first.kind = "lookup" THEN GaiErrors \cup {"OK"} ELSE {"OK"},
                       garbage \in IF first.kind = "lookup" THEN CandidateFamilies
                                   ELSE {"AF_INET"} :
                       LET resolved == construct_sockaddr(TRUE, csaCall.node, csaCall.port,
                                           passed[1], csaEnv, err, garbage)
                       IN  /\ csaResult' = resolved
                           /\ IF resolved.kind = "exit"
                              THEN /\ Fail(Report(resolved.message))
                                   /\ UNCHANGED <<opLog, bindErrors, pcMain>>
                              ELSE \/ /\ opLog' = opLog \cup {CommCall("main", "setsockopt"),
                                                              CommCall("main", "bind")}
                                      /\ pcMain' = "connect"
                                      /\ UNCHANGED <<bindErrors, procVars>>
                                   \/ /\ opLog' = opLog \cup {CommCall("main", "setsockopt")}
                                      /\ Fail(CreationFailure("", "source", "setsockopt",
                                                  "EINVAL", csaCall.port, Report("")))
                                      /\ UNCHANGED <<bindErrors, pcMain>>
                                   \/ /\ opLog' = opLog \cup {CommCall("main", "setsockopt"),
                                                              CommCall("main", "bind")}
                                      /\ \E error \in BindErrnos :
                                            /\ Fail(CreationFailure("", "source", "bind",
                                                        error, csaCall.port, Report("")))
                                            /\ BindFailed("communicator", error, csaCall.port)
                                      /\ UNCHANGED pcMain
    /\ UNCHANGED <<csaCall, csaEnv, listenerLog, reportVars, argVars, writeVars, udpVars, mode, pcRecv,
                   sockVars, ioVars>>

NextSource == BindSource \/ HaltProgram

SpecSource == InitSource /\ [][NextSource]_vars

-----------------------------------------------------------------------------
(* Properties of address resolution, checked under SpecResolve *)

\* the call has run to its end: it returned, or the process is gone
CsaFinished == csaResult.kind \in {"addr", "uninit", "exit", "crash"}

\* an address of this family satisfies the IP-version constraint
SatisfiesConstraint(constraint, family) ==
    \/ constraint = "NONE" /\ family \in {"AF_INET", "AF_INET6"}
    \/ constraint = "FOUR" /\ family = "AF_INET"
    \/ constraint = "SIX" /\ family = "AF_INET6"

\* entries of the interface list named node whose address satisfies the constraint
MatchingInterfaces ==
    {i \in 1..Len(csaEnv.interfaceAddresses) :
        /\ csaEnv.interfaceAddresses[i].ifa_name = csaCall.node
        /\ SatisfiesConstraint(csaCall.constraint,
                               csaEnv.interfaceAddresses[i].sa_family)}

\* candidates of the host database whose family satisfies the constraint
MatchingCandidates ==
    {j \in 1..Len(csaEnv.addressInfo) :
        SatisfiesConstraint(csaCall.constraint, csaEnv.addressInfo[j])}

Min(S) == CHOOSE x \in S : \A y \in S : x <= y

\* the candidate loop ran: getaddrinfo answered with a list
LookupAnswered == CsaFinished /\ csaResult.kind \in {"addr", "uninit"}
                              /\ csaResult.via = "lookup"

\* C7: with constraint FOUR the result is never an IPv6 address and with SIX
\* never an IPv4 address, whether it comes from the interface list or from the
\* lookup; and when neither the interface list nor the host database holds an
\* address of the required family, the call ends in a reported failure and
\* returns nothing.
C7_FamilyRespectsConstraint ==
    (CsaFinished /\ csaCall.constraint # "NONE") =>
        /\ csaResult.kind \in {"addr", "exit"}
        /\ csaResult.kind = "addr" =>
              SatisfiesConstraint(csaCall.constraint, csaResult.addr.sa_family)
        /\ (MatchingInterfaces = {} /\ MatchingCandidates = {}) =>
              /\ csaResult.kind = "exit"
              /\ csaResult.exitCode = "EXIT_FAILURE"

\* C7 witness: under SIX an IPv4 address of the named interface was passed
\* over and a later IPv6 address of it was returned
C7_Witness ==
    /\ csaResult.kind = "addr" /\ csaResult.via = "interface"
    /\ csaCall.constraint = "SIX"
    /\ csaResult.addr.sa_family = "AF_INET6"
    /\ csaEnv.interfaceAddresses[1] = [ifa_name |-> NodeName, sa_family |-> "AF_INET"]
    /\ csaResult.addr.sin_addr = <<"if", 2>>

\* C8 as claimed: with constraint NONE, whenever the list the lookup returned
\* holds an IPv6 candidate, the result is an IPv6 address
C8_PrefersIPv6 ==
    (LookupAnswered /\ csaCall.constraint = "NONE"
        /\ \E j \in 1..Len(csaEnv.addressInfo) : csaEnv.addressInfo[j] = "AF_INET6") =>
            csaResult.kind = "addr" /\ csaResult.addr.sa_family = "AF_INET6"

\* C8 (amended): with constraint NONE, whenever the list the lookup returned
\* holds an IPv4 or IPv6 candidate, the result is the first such candidate in
\* list order, of either family
C8_FirstIPCandidate ==
    (LookupAnswered /\ csaCall.constraint = "NONE" /\ MatchingCandidates # {}) =>
        /\ csaResult.kind = "addr"
        /\ csaResult.addr.sa_family = csaEnv.addressInfo[Min(MatchingCandidates)]
        /\ csaResult.addr.sin_addr = <<"ai", Min(MatchingCandidates)>>

\* C8 witness: an IPv4 candidate ahead of an IPv6 candidate was returned
C8_Witness ==
    /\ LookupAnswered /\ csaCall.constraint = "NONE"
    /\ Len(csaEnv.addressInfo) >= 2
    /\ csaEnv.addressInfo[1] = "AF_INET" /\ csaEnv.addressInfo[2] = "AF_INET6"
    /\ csaResult.kind = "addr" /\ csaResult.addr.sin_addr = <<"ai", 1>>

\* C9: with constraint NONE, when the list the lookup returned holds neither an
\* IPv4 nor an IPv6 candidate the call ends in a reported failure, and no
\* result is ever returned that was not copied from a candidate
C9_NoIPCandidateFails ==
    /\ csaResult.kind # "uninit"
    /\ (CsaFinished /\ csaCall.constraint = "NONE" /\ MatchingCandidates = {}
           /\ csaResult.kind # "addr") => csaResult.kind = "exit"

\* C10: resolving interfaces, whenever an entry of the interface list is named
\* node and has an address satisfying the constraint, wherever it sits, the
\* first such address is returned with the requested port and the lookup is
\* never entered
C10_InterfaceMatchReturned ==
    (csaCall.resolve_interfaces /\ MatchingInterfaces # {}
        /\ csaResult.kind # "pending") =>
            /\ csaResult.kind = "addr" /\ csaResult.via = "interface"
            /\ csaResult.addr.sin_addr = <<"if", Min(MatchingInterfaces)>>
            /\ ntohs(csaResult.addr.sin_port) = csaCall.port

-----------------------------------------------------------------------------
(* Properties of NetworkShepherd::write, checked under SpecWrite *)

\* the bytes this call of write has handed to the socket so far
WriteHanded == SubSeq(sockOut, wStart + 1, Len(sockOut))

TransferErrorReports ==
    {[message |-> "failed to send on communicator socket, connection reset"]}
        \cup [message : {"failed to send on communicator socket, unknown reason"},
              errorCode : SendErrnos]

\* C1: write returns only when the whole buffer has been handed to the socket
\* in buffer order; what it has handed at any moment is a prefix of the
\* buffer; and when it does not return the process has exited with the
\* failure status after one reported transfer error
C1_WriteSendsAllOrExits ==
    /\ IsPrefix(WriteHanded, wBuffer)
    /\ writeState = "returned" => (WriteHanded = wBuffer /\ Running)
    /\ ~Running =>
          /\ writeState = "running"
          /\ exitCode = "EXIT_FAILURE"
          /\ Len(stderrLog) = 1 /\ stderrLog[1] \in TransferErrorReports

\* C1 witness: write has returned after short sends moved its cursor into
\* the buffer and a last send took the rest
C1_Witness ==
    /\ writeState = "returned"
    /\ Len(wBuffer) >= 3 /\ byte_buffer >= 2 /\ buffer_size >= 1
    /\ WriteHanded = wBuffer

-----------------------------------------------------------------------------
(* Properties of writeUDPAndFindMSS, checked under SpecUDP *)

\* C2: whenever writeUDPAndFindMSS returns, the bytes it handed to the socket
\* are the whole buffer, in order, also when a message-too-large answer made
\* it adopt a smaller chunk size
C2_UdpSendsWholeBuffer ==
    udpState = "returned" => IsPrefix(uBuffer, udpHanded)

-----------------------------------------------------------------------------
(* Properties of a TCP transfer, checked under Spec *)

TCPModes == {"tcp_connect", "tcp_listen", "tcp_keep"}

\* what write still has to send, and what the receive thread still has to
\* write to standard output
UnsentRest == IF writeState = "running" THEN Bytes(wBuffer, byte_buffer, buffer_size) ELSE <<>>
UnwrittenRest == IF pcRecv = "write" THEN Bytes(recvBuffer, buffer_ptr, bytesRead) ELSE <<>>

\* C3: in a TCP transfer, whatever the interleaving of the two threads and
\* whatever the partial counts, the bytes handed to the communicator socket
\* followed by the unsent rest of the buffer in write are exactly the bytes
\* read from standard input so far, in source order, and the bytes written to
\* standard output followed by the unwritten rest of the receive buffer are
\* exactly the bytes read from the socket, in order; when main returns, all of
\* standard input has been handed to the socket and all that was received
\* has been written to standard output.
C3_BytesInOrderBothWays ==
    mode \in TCPModes =>
        /\ sockOut \o UnsentRest = SubSeq(Stream(stdinLen), 1, stdinPos)
        /\ stdoutLog \o UnwrittenRest = recvLog
        /\ pcMain = "returned" => sockOut = Stream(stdinLen) /\ stdoutLog = recvLog

\* both threads are in the middle of a buffer after a partial count, in the
\* second turn of the send loop
C3_Witness ==
    /\ mode \in TCPModes /\ Running
    /\ writeState = "running" /\ byte_buffer > 0 /\ stdinPos > BUFSIZ
    /\ pcRecv = "write" /\ buffer_ptr > 0

\* the step closes the communicator of a TCP transfer
ClosesCommunicator ==
    /\ mode \in TCPModes
    /\ communicatorSocket \in commOpen
    /\ communicatorSocket \notin commOpen'

\* C4: shutdown ordering of a TCP transfer. The write side is shut down at
\* most once per connection and only when standard input is at end-of-file
\* and write has sent everything; the main thread waits for the receive
\* thread only after that one shutdown; and the step that closes the
\* communicator is taken only after the shutdown and after the receive thread
\* has returned and been joined, with every byte the peer sent, those arriving
\* after the half-close included, written to standard output.
C4_ShutdownOrdering ==
    /\ [](mode \in TCPModes =>
            /\ shutdowns <= 1
            /\ shutdowns = 1 => stdinPos = stdinLen /\ writeState # "running"
                                /\ sockOut = Stream(stdinLen)
            /\ pcMain \in {"join", "close"} => shutdowns = 1)
    /\ [][ClosesCommunicator =>
            /\ shutdowns = 1
            /\ pcRecv = "joined"
            /\ netPos = netLen
            /\ stdoutLog = recvLog]_vars

\* the communicator has been closed after a transfer in which data arrived
\* after the half-close
C4_Witness ==
    /\ mode \in TCPModes /\ Running
    /\ communicatorSocket > 0 /\ communicatorSocket \notin commOpen
    /\ shutdowns = 1 /\ readAfterShutdown
    /\ Len(stdoutLog) > 0 /\ stdoutLog = recvLog

\* C5: in every mode, every call made on the communicator socket, by either
\* thread, is made while the socket is open: none before accept,
\* createCommunicatorAndConnect or createUDPSender has created it, none after
\* closeCommunicator has closed it.
C5_CallsOnlyOnOpenCommunicator ==
    \A call \in opLog : call.on = "open"

\* a second connection of a keep-listening run has been served and closed,
\* and both threads have made calls on the communicator
C5_Witness ==
    /\ mode = "tcp_keep" /\ connections = 2 /\ commOpen = {}
    /\ {"send", "shutdown", "read", "close"} \subseteq {call.op : call \in opLog}
    /\ {"main", "recv"} \subseteq {call.thread : call \in opLog}

\* C6: at most one communicator socket is open at any time, and the main
\* thread is at accept only when none is: a keep-listening run closes the
\* communicator of one connection before it accepts the next.
C6_OneCommunicatorAtATime ==
    /\ Cardinality(commOpen) <= 1
    /\ pcMain = "accept" => commOpen = {}
    /\ commOpen # {} => commOpen = {communicatorSocket}

\* the second connection of a keep-listening run is open, the first closed
C6_Witness ==
    /\ mode = "tcp_keep" /\ connections = 2 /\ commOpen = {2}
    /\ pcMain = "transfer"

-----------------------------------------------------------------------------
(* Further properties of address resolution, checked under SpecResolve *)

\* the entries of the interface list named node that carry an address of family
InterfaceEntries(family) ==
    {i \in 1..Len(csaEnv.interfaceAddresses) :
        /\ csaEnv.interfaceAddresses[i].ifa_name = csaCall.node
        /\ csaEnv.interfaceAddresses[i].sa_family = family}

\* C11: resolving interfaces with constraint NONE, when the interface named
\* node has both an IPv4 and an IPv6 address in the list, in whichever order,
\* the call returns the IPv6 address of the interface.
C11_InterfacePrefersIPv6 ==
    (csaCall.resolve_interfaces /\ csaCall.constraint = "NONE"
        /\ csaResult.kind # "pending"
        /\ InterfaceEntries("AF_INET") # {} /\ InterfaceEntries("AF_INET6") # {}) =>
            /\ csaResult.kind = "addr" /\ csaResult.via = "interface"
            /\ csaResult.addr.sa_family = "AF_INET6"

\* the interface scan found nothing and the call went on to getaddrinfo
FellThrough ==
    /\ CsaFinished
    /\ csaCall.resolve_interfaces
    /\ ~(csaResult.kind = "addr" /\ csaResult.via = "interface")

\* the messages of the lookup failures that are the system's, not the name's
SystemLookupFailures ==
    {GaiErrorMessage(code) : code \in {"EAI_AGAIN", "EAI_FAIL", "EAI_MEMORY",
                                       "EAI_SYSTEM", "EAI_ADDRFAMILY"}}

\* C12: resolving interfaces, when no entry of the interface list is named
\* node and node is a hostname (no literal address) the host database has an
\* address for, the call falls through to the lookup and returns that host's
\* address; it fails only when the lookup itself fails.
C12_HostnameAfterInterfaces ==
    (FellThrough /\ ~csaEnv.numericNode
        /\ InterfaceEntries("AF_INET") = {} /\ InterfaceEntries("AF_INET6") = {}
        /\ MatchingCandidates # {}) =>
            \/ csaResult.kind = "addr" /\ csaResult.via = "lookup"
            \/ csaResult.kind = "exit" /\ csaResult.message \in SystemLookupFailures

\* ports at the ends of the range and around the byte boundary
PortSamples == {1, 80, 255, 256, 257, 443, 32768, 65535}

\* node is a literal address: the lookup answers with that one address
LiteralAddress ==
    /\ csaEnv.numericNode
    /\ Len(csaEnv.addressInfo) = 1
    /\ csaEnv.addressInfo[1] \in {"AF_INET", "AF_INET6"}

\* C13: with constraint NONE and a literal address of either family, in
\* either mode, the address returned by the lookup has a port field that
\* decodes from network byte order to the requested port, and its family and
\* address bytes are those of the literal; decoding undoes encoding for every
\* sampled port of 1..65535.
C13_PortRoundTrip ==
    (CsaFinished /\ csaCall.constraint = "NONE" /\ LiteralAddress
        /\ csaResult.kind = "addr" /\ csaResult.via = "lookup") =>
            /\ ntohs(csaResult.addr.sin_port) = csaCall.port
            /\ csaResult.addr.sa_family = csaEnv.addressInfo[1]
            /\ csaResult.addr.sin_addr = <<"ai", 1>>
            /\ \A p \in PortSamples :
                  /\ ntohs(Returned(AiAddr(csaEnv.addressInfo, 1), p, "lookup").addr.sin_port) = p
                  /\ htons(p) \in 0..65535

\* a literal IPv6 address was returned in interface mode with port 80, whose
\* two bytes differ
C13_Witness ==
    /\ CsaFinished /\ csaCall.constraint = "NONE" /\ LiteralAddress
    /\ csaCall.resolve_interfaces /\ csaCall.port = 80
    /\ csaResult.kind = "addr" /\ csaResult.via = "lookup"
    /\ csaResult.addr.sa_family = "AF_INET6"
    /\ csaResult.addr.sin_port # csaCall.port

\* the lookup is asked for one family and the name has addresses of the
\* other family only
OnlyOtherFamily ==
    /\ csaCall.constraint # "NONE"
    /\ csaEnv.addressInfo # <<>>
    /\ \A j \in 1..Len(csaEnv.addressInfo) :
          csaEnv.addressInfo[j] = (IF csaCall.constraint = "FOUR" THEN "AF_INET6"
                                   ELSE "AF_INET")
    /\ CsaFinished
    /\ ~(csaResult.kind = "addr" /\ csaResult.via = "interface")

LookupFailureMessages == {GaiErrorMessage(code) : code \in GaiErrors}

\* C14 as claimed: FOUR on a name with IPv6 addresses only, or SIX on a name
\* with IPv4 addresses only, fails with a report of its own that is none of
\* the reports of the lookup failures.
C14_DedicatedConstraintFailure ==
    OnlyOtherFamily =>
        /\ csaResult.kind = "exit"
        /\ csaResult.message \notin LookupFailureMessages

\* C14 (amended): FOUR on a name with IPv6 addresses only, or SIX on a name
\* with IPv4 addresses only, never returns an address: the call fails with
\* the failure status and with the report of the error code getaddrinfo
\* answered, one of the reports of the lookup failures.
C14_FailsAsLookupFailure ==
    OnlyOtherFamily =>
        /\ csaResult.kind = "exit"
        /\ csaResult.exitCode = "EXIT_FAILURE"
        /\ csaResult.message \in LookupFailureMessages

\* FOUR on a name with one IPv6 address failed as an invalid name
C14_Witness ==
    /\ OnlyOtherFamily /\ csaCall.constraint = "FOUR"
    /\ csaEnv.addressInfo = <<"AF_INET6">>
    /\ csaResult.kind = "exit"
    /\ csaResult.message = GaiErrorMessage("EAI_NONAME")

-----------------------------------------------------------------------------------------------------------------------------------------------------
(* Properties of createListener, checked under SpecListener *)

\* the construct_sockaddr call of line 197 ended the process / returned
ListenerResolutionFailed == csaResult.kind = "exit"
ListenerResolved == csaResult.kind \in {"addr", "uninit"}

ListenerOps == [i \in 1..Len(listenerLog) |-> listenerLog[i].op]

\* C15: when the resolution of the listen address fails, the report of the
\* resolver is written, the main thread goes no further, and neither then nor
\* later is a socket, setsockopt, bind or listen call made: the log of calls on
\* the listener socket stays empty and no listener exists.
C15_NoSocketCallAfterFailedResolution ==
    ListenerResolutionFailed =>
        /\ listenerLog = <<>>
        /\ listenerState = "uncreated"
        /\ stderrLog = <<Report(csaResult.message)>>
        /\ ~Runs("main")

\* a numeric IPv6 literal resolved under the constraint FOUR: the process has
\* ended with the failure status
C15_Witness ==
    /\ ListenerResolutionFailed
    /\ csaCall.constraint = "FOUR"
    /\ csaEnv.numericNode /\ csaEnv.addressInfo = <<"AF_INET6">>
    /\ exitCode = "EXIT_FAILURE"
    /\ listenerLog = <<>>

\* the option call createListener owes to the constraint and the resolved family
ExpectedV6Only(constraint, family) ==
    IF constraint = "NONE" /\ family = "AF_INET6" THEN <<FALSE>>
    ELSE IF constraint = "SIX" THEN <<TRUE>>
    ELSE <<>>

\* the calls of a run in which every call succeeds
ExpectedListenerOps(constraint, family) ==
    <<"socket">>
        \o (IF ExpectedV6Only(constraint, family) = <<>> THEN <<>> ELSE <<"setsockopt">>)
        \o <<"bind", "listen">>

\* C16: once the address is resolved, the calls on the listener socket are
\* socket, then the IPV6_V6ONLY call where the constraint asks for one (value
\* false exactly for NONE with an IPv6 address, value true exactly for SIX, no
\* call for FOUR and for NONE with another family), then bind, then listen;
\* only the last call made can have failed, and then the main thread has
\* reported and goes no further, so a failed option call is never followed
\* by bind.
C16_V6OnlyPerConstraintBeforeBind ==
    ListenerResolved =>
        LET constraint == csaCall.constraint
            family     == csaResult.addr.sa_family
            expected   == ExpectedV6Only(constraint, family)
        IN  /\ IsPrefix(ListenerOps, ExpectedListenerOps(constraint, family))
            /\ \A i \in 1..Len(listenerLog) :
                  /\ listenerLog[i].op = "setsockopt" =>
                        /\ listenerLog[i].option = "IPV6_V6ONLY"
                        /\ expected = <<listenerLog[i].value>>
                  /\ ~listenerLog[i].ok =>
                        /\ i = Len(listenerLog)
                        /\ ~Runs("main")
                        /\ Len(stderrLog) = 1
            /\ listenerState \in {"bound", "listening"} =>
                  \E i \in 1..Len(listenerLog) : listenerLog[i] = BindCall(TRUE)

\* NONE resolved to an IPv6 address: the option was disabled, then the
\* listener was bound and listens
C16_Witness ==
    /\ ListenerResolved
    /\ csaCall.constraint = "NONE" /\ csaResult.addr.sa_family = "AF_INET6"
    /\ listenerLog = <<SocketCall(TRUE), V6OnlyCall(FALSE, TRUE), BindCall(TRUE),
                       ListenCall(TRUE)>>

-----------------------------------------------------------------------------
(* Properties of NetworkShepherd::read, checked under Spec *)

\* the reports NetworkShepherd::read can write
ReadReports == {ReadFailure(error) : error \in ReadErrnos}

\* the step wrote a report of NetworkShepherd::read
ReadReported ==
    /\ Len(stderrLog') = Len(stderrLog) + 1
    /\ stderrLog'[Len(stderrLog')] \in ReadReports

\* C17: every invocation of NetworkShepherd::read makes one ::read call. When
\* that call fails the report is written and the function does not return:
\* the receive thread has called halt_program and its count and position are
\* as they were. Otherwise the value returned is the number of bytes taken
\* from the connection, never negative; when it is zero the peer has closed
\* and the function has reported nothing, when it is positive these bytes
\* are in the caller's buffer.
C17_ReadOnceAndNeverNegative ==
    [][RecvRead =>
          /\ readCalls' = 1
          /\ IF ReadReported
             THEN /\ \E h \in halting' : h.thread = "recv" /\ h.code = "EXIT_FAILURE"
                  /\ UNCHANGED <<bytesRead, recvLog, pcRecv>>
             ELSE /\ bytesRead' >= 0
                  /\ bytesRead' = Len(recvLog') - Len(recvLog)
                  /\ bytesRead' = 0 =>
                        /\ netPos = netLen
                        /\ \A i \in 1..Len(stderrLog') : stderrLog'[i] \notin ReadReports
                                                        \/ i <= Len(stderrLog)
                  /\ bytesRead' > 0 =>
                        /\ recvBuffer' = SubSeq(recvLog', Len(recvLog) + 1, Len(recvLog'))
                        /\ UNCHANGED stderrLog]_vars

\* the three outcomes have happened on one connection or another: a positive
\* count, then a count of zero returned without a report
C17_Witness ==
    /\ readCalls = 1
    /\ bytesRead = 0
    /\ recvLog # <<>>
    /\ pcRecv = "done"
    /\ stderrLog = <<>>

\* a failed ::read: the report is written, the thread halts the process
C17_WitnessError ==
    /\ readCalls = 1
    /\ pcRecv = "read"
    /\ \E i \in 1..Len(stderrLog) : stderrLog[i] \in ReadReports
    /\ exitCode = "EXIT_FAILURE"

-----------------------------------------------------------------------------
(* Properties of writeErrorAndCodeAndExit, checked under SpecReport *)

\* the decimal representation of a number, as the characters of its digits
RECURSIVE Decimal(_)
Decimal(n) ==
    IF n < 10 THEN <<DigitChar(n)>>
    ELSE Append(Decimal(n \div 10), DigitChar(n % 10))

DecimalOfCode(c) == IF c < 0 THEN <<"-">> \o Decimal(-c) ELSE Decimal(c)

\* what the report written shows as the code
PrintedCode == stderrLog[Len(stderrLog)].errorCode

\* no character is stored in front of the digit buffer
DigitsNeverOverrun == reportState # "overrun" /\ digits_ptr >= 0

\* C19: the report shows the decimal representation of the code passed in,
\* with a leading '-' when it is negative, for every code, and no character is
\* stored outside the buffer of 11 characters.
C19_ReportShowsExactCode ==
    /\ DigitsNeverOverrun
    /\ reportState = "written" => PrintedCode = DecimalOfCode(errorCode)

\* what holds of the code: a code that is not positive is shown as it is, a
\* positive code is shown as 0
ReportShowsZeroForPositiveCode ==
    reportState = "written" =>
        PrintedCode = IF errorCode > 0 THEN <<"0">> ELSE DecimalOfCode(errorCode)

\* the longest report has been written: it fills the buffer
LongestCodeWritten ==
    /\ reportState = "written" /\ errorCode = -INT_MAX /\ digits_ptr = 0
    /\ PrintedCode = DecimalOfCode(-INT_MAX)

-----
(* Properties of error reporting, checked under Spec *)

\* C18: in every execution, also when the main thread and the receive thread
\* both meet a failure, at most one error report has been written to standard
\* error, before the process halts and after.
C18_AtMostOneReport == Len(stderrLog) <= 1

\* the main thread reported an argument error: manageArgs never returned and
\* the report is one of the parser's
ArgumentErrorReported ==
    /\ pcMain = "manageArgs"
    /\ stderrLog # <<>>
    /\ stderrLog[1].message \in {error.message : error \in ArgumentErrors}

\* the status the run is owed: success when nothing was reported (main
\* returned, or --help was served) and when the arguments were rejected,
\* failure after every other report
OwedStatus ==
    IF stderrLog = <<>> \/ ArgumentErrorReported THEN "EXIT_SUCCESS" ELSE "EXIT_FAILURE"

\* C20: every thread that halts the program asks for the status the run is
\* owed, and the process ends with it: the success status after an argument
\* error of parsePort, parseBacklog, parseLetterFlags, manageArgs or
\* validateFlagRelationships and after a run without a report, the failure
\* status after any other report; a process that has ended without a report
\* has returned from main or has served --help.
C20_TwoTierExitStatus ==
    /\ \A h \in halting : h.code = OwedStatus
    /\ exitCode # "none" => exitCode = OwedStatus
    /\ exitCode # "none" /\ stderrLog = <<>> =>
          pcMain = "returned" \/ stdoutLog = <<"helpText">>
    /\ pcMain = "returned" => exitCode = "EXIT_SUCCESS" /\ stderrLog = <<>>

\* a command line rejected by validateFlagRelationships has ended the process
\* with the success status
C20_Witness ==
    /\ exitCode = "EXIT_SUCCESS"
    /\ stderrLog = <<Report("\"-k\" cannot be specified without \"-l\"")>>
    /\ mode = NULL

\* a failure of the network after a transfer has begun has ended it with the
\* failure status, and a complete run has ended with the success status
C20_WitnessFailure ==
    /\ exitCode = "EXIT_FAILURE"
    /\ stdinPos > 0
    /\ \E i \in 1..Len(stderrLog) : stderrLog[i] \in ReadReports

C20_WitnessReturned ==
    /\ exitCode = "EXIT_SUCCESS" /\ pcMain = "returned" /\ mode = "tcp_listen"
    /\ stdoutLog # <<>>

\* the reports of failures that the user's input shapes: a name without an
\* address of the constrained family, and a peer that cannot be reached
ConstraintConflictReports ==
    {Report(GaiErrorMessage(code)) : code \in {"EAI_NONAME", "EAI_NODATA", "EAI_ADDRFAMILY"}}

UnreachablePeerReports ==
    {ConnectFailure(error) : error \in {"ECONNREFUSED", "ENETUNREACH", "EHOSTUNREACH"}}

OutOfMemoryReport == Report(GaiErrorMessage("EAI_MEMORY"))

\* createCommunicatorAndConnect did not return: it wrote this report
ConnectEndedWith(reports) ==
    /\ mode = "tcp_connect" /\ pcMain = "main"
    /\ exitCode # "none"
    /\ stderrLog # <<>> /\ stderrLog[1] \in reports

\* C21 as stated: a constraint conflict of the resolution and an unreachable
\* peer end the process with the success status, an out-of-memory failure with
\* the failure status.
C21_UserShapedFailuresExitWithSuccess ==
    /\ ConnectEndedWith(ConstraintConflictReports \cup UnreachablePeerReports) =>
          exitCode = "EXIT_SUCCESS"
    /\ ConnectEndedWith({OutOfMemoryReport}) => exitCode = "EXIT_FAILURE"

\* C21 as amended: a constraint conflict of the resolution and an unreachable
\* peer end the process with the failure status, as an out-of-memory failure
\* does; the success status is kept for rejected command lines.
C21_UserShapedFailuresExitWithFailure ==
    /\ ConnectEndedWith(ConstraintConflictReports \cup UnreachablePeerReports
                            \cup {OutOfMemoryReport}) =>
          exitCode = "EXIT_FAILURE"
    /\ ArgumentErrorReported /\ exitCode # "none" => exitCode = "EXIT_SUCCESS"

\* the peer refused the connection: the process has ended with the failure
\* status
C21_Witness ==
    /\ ConnectEndedWith({Report("failed to connect, connection refused")})
    /\ exitCode = "EXIT_FAILURE"
    /\ communicatorSocket # NoSocket

\* the reports of the two transfer operations: the messages of read's switch
\* (lines 405-434) and of write's switch (lines 453-478)
TransferOps == {"read", "write"}

TransferPrefix(op) ==
    IF op = "read" THEN "failed to read from communicator socket"
    ELSE "failed to send on communicator socket"

TransferErrnos(op) == IF op = "read" THEN ReadErrnos ELSE SendErrnos

\* every report a switch can be asked for, whatever the code
TransferReportsOf(op) ==
    {[message |-> TransferPrefix(op) \o ", connection reset"],
     [message |-> TransferPrefix(op) \o ", broken pipe"],
     [message |-> TransferPrefix(op) \o ", connection timed out"]}
    \cup {[message |-> TransferPrefix(op) \o ", unknown reason", errorCode |-> error] :
             error \in TransferErrnos(op)}

TransferReports == TransferReportsOf("read") \cup TransferReportsOf("write")

\* the report the four categories give a code
FourCategoryReport(op, error) ==
    CASE error = "ECONNRESET" -> [message |-> TransferPrefix(op) \o ", connection reset"]
      [] error = "EPIPE" -> [message |-> TransferPrefix(op) \o ", broken pipe"]
      [] error = "ETIMEDOUT" -> [message |-> TransferPrefix(op) \o ", connection timed out"]
      [] OTHER -> [message |-> TransferPrefix(op) \o ", unknown reason", errorCode |-> error]

\* C22: every report of a failed read or write of the TCP communicator is the
\* one the four categories give some code: connection reset, broken pipe,
\* timed out, or unknown with a code that is none of those three; a timed-out
\* or broken-pipe code is never shown as the code of an unknown failure.
C22_FourTransferCategories ==
    \A i \in DOMAIN stderrLog :
        stderrLog[i] \in TransferReports =>
            \E op \in TransferOps :
                \E error \in TransferErrnos(op) :
                    stderrLog[i] = FourCategoryReport(op, error)

\* the report the classification of bind failures gives an errno and the
\* requested port, with the words of the socket it is about
BindMessages(socket) ==
    IF socket = "listener"
    THEN [denied |-> "permission to bind TCP listener to address+port denied by local system",
          noPorts |-> "bind TCP listener failed, no ephemeral ports available",
          occupied |-> "bind TCP listener failed, port occupied",
          unknown |-> "bind TCP listener failed, unknown reason"]
    ELSE [denied |-> "permission to bind communicator to source address+port denied by local system",
          noPorts |-> "bind communicator failed, no ephemeral source ports available",
          occupied |-> "bind communicator failed, source port occupied",
          unknown |-> "bind communicator failed, unknown reason"]

ClassifiedBindReport(failed) ==
    IF failed.error = "EACCES" THEN [message |-> BindMessages(failed.socket).denied]
    ELSE IF failed.error = "EADDRINUSE"
    THEN IF failed.port = 0 THEN [message |-> BindMessages(failed.socket).noPorts]
         ELSE [message |-> BindMessages(failed.socket).occupied]
    ELSE [message |-> BindMessages(failed.socket).unknown, errorCode |-> failed.error]

C23_WitnessSource ==
    /\ bindErrors = <<[socket |-> "communicator", error |-> "EADDRINUSE", port |-> 80]>>
    /\ stderrLog = <<Report("bind communicator failed, source port occupied")>>
    /\ exitCode = "EXIT_FAILURE"

AcceptModes == {"tcp_listen", "tcp_keep"}

\* the main thread is past a return of accept and has not come back to it
AcceptReturned == mode \in AcceptModes /\ pcMain \in {"start_transfer", "transfer", "join"}

AcceptFailureReports == {AcceptFailure(error) : error \in AcceptErrnos}

\* a step that leaves the call of accept
AcceptReturns == pcMain = "accept" /\ pcMain' # "accept"

\* accept returned with exactly one new communicator socket, which is open
OneCommunicatorProduced ==
    /\ connections' = connections + 1
    /\ communicatorSocket' = connections'
    /\ commOpen' = commOpen \cup {communicatorSocket'}
    /\ communicatorSocket' \notin commOpen

\* once accept has failed the main thread makes no other call
NothingAfterFailedAccept ==
    mode \in AcceptModes /\ communicatorSocket = INVALID_SOCKET =>
        (UNCHANGED <<communicatorSocket, connections, commOpen, pcMain>>)

ZeroLengthDatagramRead ==
    /\ mode = "udp_listen" /\ pcMain = "do_UDP_receive"
    /\ datagrams' = datagrams + 1
    /\ recvLog' = recvLog

\* the loop of do_UDP_receive is at its head and goes on
AtReceiveLoopHead == mode = "udp_listen" /\ pcMain = "do_UDP_receive" /\ Runs("main")

\* C25: a zero-length datagram of the UDP listener is consumed and nothing is
\* written for it; the receive loop is at its head again and still running,
\* and at the head of the loop standard output holds the whole payload of
\* every datagram read so far, in order, whatever zero-length datagrams came
\* in between.
C25_ZeroLengthDatagramIsNotEndOfStream ==
    /\ [][ZeroLengthDatagramRead =>
            /\ pcMain' = "do_UDP_receive"
            /\ exitCode' = "none" /\ halting' = halting
            /\ stdoutLog' = stdoutLog /\ stderrLog' = stderrLog
            /\ ~stdoutClosed' /\ listenerState' = "bound"]_vars
    /\ [](AtReceiveLoopHead => stdoutLog = recvLog /\ ~stdoutClosed)
    /\ [](mode = "udp_listen" => IsPrefix(stdoutLog, recvLog))

\* a zero-length datagram, then one of two bytes: both bytes are on standard
\* output and the loop waits for the next datagram
C25_Witness ==
    /\ AtReceiveLoopHead
    /\ datagrams = 2
    /\ recvLog = Datagram(2, 2)
    /\ stdoutLog = Datagram(2, 2)

\* a message-too-large answer was met in the call: getMSSApproximation made
\* its getsockopt
MessageTooLargeMet == CommCall("main", "getsockopt") \in opLog

\* C26: writeUDPAndFindMSS returns 0 when no write of the call was answered
\* with message-too-large, and otherwise the value getMSSApproximation
\* produced for the MTU reported at the latest such answer.
C26_ReturnsLatestMSSOrZero ==
    udpState = "returned" =>
        /\ ~MessageTooLargeMet => result = 0 /\ lastMTU = <<>>
        /\ MessageTooLargeMet =>
              /\ lastMTU # <<>>
              /\ result = getMSSApproximation(UDPSenderAddressFamily, lastMTU[1])

\* a part of the buffer was sent, then a write was answered with
\* message-too-large under an MTU of 29: the call returned 1
C26_Witness ==
    /\ udpState = "returned"
    /\ UDPSenderAddressFamily = "AF_INET"
    /\ uBuffer = Stream(4)
    /\ lastMTU = <<29>> /\ result = 1
    /\ Len(udpHanded) >= 3

\* a call that met no message-too-large answer returned 0
C26_WitnessZero ==
    /\ udpState = "returned" /\ ~MessageTooLargeMet /\ result = 0
    /\ udpHanded = uBuffer /\ Len(uBuffer) = 2

\* the lone call of getMSSApproximation has returned
MSSReturned == pcMain = "udp_transfer" /\ lastMTU # <<>>

\* C27: getMSSApproximation returns the reported MTU minus 28 on an IPv4
\* sender and minus 48 on an IPv6 sender, for every MTU reported: the 16-bit
\* result is that difference itself.
C27_MSSIsMTUMinusHeaders ==
    MSSReturned =>
        senderBufferSize =
            lastMTU[1] - (IF UDPSenderAddressFamily = "AF_INET" THEN 28 ELSE 48)

\* the sizes getMSSApproximation can hand to do_UDP_send_and_close
InitialSegmentSizes ==
    {getMSSApproximation(UDPSenderAddressFamily, value) :
        value \in MTUValues(UDPSenderAddressFamily)}

\* a step that changes the size of the sender's buffer is the first allocation
\* or the adoption of a nonzero value writeUDPAndFindMSS returned
SegmentSizeChangesByAdoption ==
    senderBufferSize' # senderBufferSize =>
        \/ /\ pcMain = "getMSSApproximation"
           /\ senderBufferSize' \in InitialSegmentSizes
        \/ /\ pcMain = "udp_transfer" /\ udpState = "returned"
           /\ result # 0 /\ senderBufferSize' = result

\* C28: in the UDP send loop the buffer and the size asked of each read of
\* standard input are the adopted segment size: the first value of
\* getMSSApproximation until writeUDPAndFindMSS returns a nonzero value, from
\* then on the latest nonzero value it returned; what a read hands to
\* writeUDPAndFindMSS is never longer than that.
C28_ReadsAtMostAdoptedSegmentSize ==
    /\ [][SegmentSizeChangesByAdoption]_vars
    /\ [](mode = "udp_send" /\ pcMain = "udp_transfer" /\ udpState = "idle" /\ result # 0 =>
            senderBufferSize = result)
    /\ [](mode = "udp_send" /\ pcMain = "udp_transfer" /\ udpState # "idle" =>
            Len(uBuffer) \in 1..senderBufferSize)

\* the first read took two bytes, the call returned the new size 1 and the loop
\* adopted it: the third byte of standard input was read with a buffer of 1
C28_Witness ==
    /\ mode = "udp_send" /\ pcMain = "udp_transfer" /\ udpState = "running"
    /\ stdinPos = 3 /\ uBuffer = <<3>>
    /\ senderBufferSize = 1
    /\ udpHanded = <<>>

\* bind was called on the communicator socket for the source
SourceBindCalled == \E call \in opLog : call.op = "bind"

\* the constraint a family satisfies alone
ConstraintOfFamily(family) == IF family = "AF_INET" THEN "FOUR" ELSE "SIX"

\* C29: whenever the source of a TCP connect or of a UDP sender is bound, the
\* socket's family is IPv4 or IPv6, the source was resolved to an address of
\* that same family, and the socket's family satisfies the constraint of the
\* command line: under NONE the source follows the destination's family,
\* otherwise the explicit constraint; a source of the other family is never
\* bound.
C29_SourceBoundInSocketFamily ==
    SourceBindCalled =>
        /\ UDPSenderAddressFamily \in {"AF_INET", "AF_INET6"}
        /\ csaResult.kind = "addr"
        /\ csaResult.addr.sa_family = UDPSenderAddressFamily
        /\ csaCall.constraint # "NONE" =>
              csaCall.constraint = ConstraintOfFamily(csaResult.addr.sa_family)

\* no constraint, the destination resolved to IPv6, the interface named as
\* source has an IPv4 and an IPv6 address, in that order: the IPv6 one is bound
C29_Witness ==
    /\ SourceBindCalled /\ pcMain = "connect"
    /\ csaCall.constraint = "NONE"
    /\ UDPSenderAddressFamily = "AF_INET6"
    /\ csaEnv.interfaceAddresses =
          <<[ifa_name |-> NodeName, sa_family |-> "AF_INET"],
            [ifa_name |-> NodeName, sa_family |-> "AF_INET6"]>>
    /\ csaResult.kind = "addr" /\ csaResult.addr.sa_family = "AF_INET6"

\* no constraint and a destination address of neither family: the source is
\* passed over without a report
C29_WitnessPassedOver ==
    /\ pcMain = "connect" /\ ~SourceBindCalled
    /\ csaCall.constraint = "NONE" /\ UDPSenderAddressFamily = "AF_OTHER"
    /\ stderrLog = <<>>

\* the receive thread of a connection has been started and not yet joined
ReceiveThreadUnjoined == pcRecv \notin {"none", "joined"}

\* a step that writes NetworkShepherd::communicatorSocket
CommunicatorAssigned == communicatorSocket' # communicatorSocket

\* C30: communicatorSocket is written only while no receive thread exists or
\* after the one of the previous connection has been joined, and the thread
\* that will read the handle is started only afterwards; this holds for every
\* connection of a keep-listening run.
C30_HandleAssignedOnlyBetweenThreads ==
    /\ [][CommunicatorAssigned =>
            /\ ~ReceiveThreadUnjoined
            /\ pcRecv' = pcRecv
            /\ pcMain \in {"main", "accept"}]_vars
    /\ [](ReceiveThreadUnjoined =>
            /\ pcMain \in {"transfer", "join"}
            /\ communicatorSocket = connections)

\* the second connection of a keep-listening run: its handle was assigned
\* after the first thread was joined, and its own thread is reading
C30_Witness ==
    /\ mode = "tcp_keep" /\ connections = 2 /\ communicatorSocket = 2
    /\ pcRecv = "read" /\ pcMain = "transfer"
    /\ recvLog # <<>>

-----------------------------------------------------------------------------
(* A lone call of validateFlagRelationships, main.cpp 136-161, on the flags *)
(* the loop of manageArgs has collected                                     *)

BacklogValues == {-1, 0, 5}     \* flags::backlog: unset, or a parsed length
SourcePortValues == {0, 80}     \* flags::sourcePort: unset (or 0), or a port

\* what the loop of manageArgs, main.cpp 165-212, can leave in the flags: every
\* option sets its own flag, whatever the others are
ParsedFlags ==
    [sourceIP : BOOLEAN, sourcePort : SourcePortValues,
     IPVersionConstraint : IPVersionConstraint,
     shouldListen : BOOLEAN, shouldKeepListening : BOOLEAN, backlog : BacklogValues,
     shouldUseUDP : BOOLEAN, allowBroadcast : BOOLEAN]

\* validateFlagRelationships, main.cpp 136-161: the message of the first
\* check that fails, in the order the code makes them, or nothing
validateFlagRelationships(f) ==
    IF f.shouldListen /\ f.allowBroadcast
    THEN <<"broadcast isn't allowed when listening">>
    ELSE IF f.shouldListen /\ f.shouldKeepListening /\ f.shouldUseUDP
    THEN <<"\"-k\" cannot be specified with \"-u\"">>
    ELSE IF f.shouldListen /\ ~f.shouldKeepListening /\ f.backlog # -1
    THEN <<"\"--backlog\" cannot be specified without \"-k\"">>
    ELSE IF f.shouldListen /\ f.sourceIP
    THEN <<"\"--source\" may not be used when listening">>
    ELSE IF f.shouldListen /\ f.sourcePort # 0
    THEN <<"\"--port\" may not be used when listening unless the specified source port is 0">>
    ELSE IF ~f.shouldListen /\ f.shouldKeepListening
    THEN <<"\"-k\" cannot be specified without \"-l\"">>
    ELSE IF ~f.shouldUseUDP /\ f.allowBroadcast
    THEN <<"broadcast is only allowed when sending UDP packets">>
    ELSE IF ~f.sourceIP /\ f.sourcePort # 0
    THEN <<"\"--port\" cannot be specified without \"--source\" unless the specified source port is 0">>
    ELSE <<>>

InitFlags ==
    /\ flags \in ParsedFlags
    /\ portString = <<>>
    /\ ProcInit /\ ResolveIdle /\ ListenIdle /\ ReportIdle /\ WriteIdle /\ UdpIdle /\ IoIdle
    /\ mode = NULL /\ pcMain = "validateFlagRelationships" /\ pcRecv = "none"
    /\ listenerState = "uncreated" /\ communicatorSocket = NoSocket
    /\ commOpen = {} /\ connections = 0 /\ shutdowns = 0 /\ opLog = {}

\* the call of validateFlagRelationships that ends manageArgs, main.cpp 216:
\* a failed check reports and exits with the success status; when every check
\* passes manageArgs returns and main goes to the branch the flags select,
\* main.cpp 341-375
ValidateFlagRelationships ==
    /\ Runs("main") /\ pcMain = "validateFlagRelationships"
    /\ LET error == validateFlagRelationships(flags)
       IN  IF error # <<>>
           THEN /\ REPORT_ERROR_AND_EXIT(error[1], "EXIT_SUCCESS")
                /\ UNCHANGED <<mode, pcMain>>
           ELSE /\ mode' = ModeOfFlags(flags.shouldListen, flags.shouldUseUDP,
                                       flags.shouldKeepListening)
                /\ pcMain' = "main"
                /\ UNCHANGED procVars
    /\ UNCHANGED <<resolveVars, listenVars, reportVars, argVars, writeVars, udpVars, pcRecv,
                   sockVars, opLog, ioVars>>

NextFlags == ValidateFlagRelationships \/ HaltProgram

SpecFlags == InitFlags /\ [][NextFlags]_vars

-----------------------------------------------------------------------------
(* Properties of validateFlagRelationships, checked under SpecFlags *)

\* C31: a command line that specifies --backlog without -k, with or without
\* -l, is never accepted: the main thread does not get past the parser to
\* the network operations, and once validateFlagRelationships has acted an
\* argument error has been reported
C31_BacklogNeedsKeepListening ==
    (flags.backlog # -1 /\ ~flags.shouldKeepListening) =>
        /\ pcMain # "main"
        /\ \/ pcMain = "validateFlagRelationships" /\ halting = {}
           \/ \E i \in 1..Len(stderrLog) :
                 [message |-> stderrLog[i].message, code |-> "EXIT_SUCCESS"]
                     \in ArgumentErrors

-----------------------------------------------------------------------------
(* Further properties of writeUDPAndFindMSS, checked under SpecUDP *)

\* C32: every send of writeUDPAndFindMSS stays inside the caller's buffer: the
\* send the loop is about to issue starts at the cursor and asks for no more
\* than the bytes left from there to the end of the buffer, also right after
\* a message-too-large answer replaced the chunk size
C32_SendsStayInsideBuffer ==
    udpState = "running" /\ Runs("main") =>
        udp_buffer + buffer_chunk_size <= Len(uBuffer)

\* the call of writeUDPAndFindMSS with the scheduling the program runs under:
\* the main thread is not starved, so the loop takes its next turn whenever it
\* has one, and std::exit, once called, ends the process. Nothing is assumed
\* of the answers of the operating system.
SpecUDPLive == SpecUDP /\ WF_vars(UdpSend) /\ WF_vars(HaltProgram)

\* C33: every call of writeUDPAndFindMSS eventually returns or ends the
\* process, whatever send outcomes and MTU values the operating system
\* answers with
C33_CallReturnsOrExits ==
    <>(udpState = "returned" \/ exitCode # "none")

-----------------------------------------------------------------------------
(* Further properties of the transfer loops and of main, checked under Spec *)

\* the communicator socket of the current connection was created and has
\* been closed
CommunicatorClosed ==
    communicatorSocket \in 1..connections /\ communicatorSocket \notin commOpen

\* C34: a TCP transfer is at closeCommunicator, or has closed its communicator,
\* only when standard input has reported end-of-file (so the write side was
\* shut down) and the peer has closed its sending side (so the receive thread
\* read the end of the stream and was joined); until then, and so also after
\* a peer that closes first, the communicator stays open while the main
\* thread is in the loop that relays standard input or waits in join
C34_CloseOnlyAfterBothEnds ==
    mode \in TCPModes =>
        /\ pcMain = "close" \/ CommunicatorClosed =>
              /\ stdinPos = stdinLen /\ shutdowns > 0
              /\ netPos = netLen /\ pcRecv = "joined"
        /\ pcMain \in {"transfer", "join"} =>
              communicatorSocket \in commOpen /\ ~CommunicatorClosed

\* the peer closed first: the receive thread has ended, the main thread is in
\* write with bytes of standard input read after that, and more are to come
C34_Witness ==
    /\ mode \in TCPModes /\ pcRecv = "done" /\ pcMain = "transfer"
    /\ writeState = "running" /\ 0 < stdinPos /\ stdinPos < stdinLen
    /\ communicatorSocket \in commOpen

\* a keep-listening run is at a connection accepted after standard input
\* reported end-of-file: the transfer of the first connection ends only with
\* that report, so these are the connections after the first
LaterConnection == mode = "tcp_keep" /\ connections >= 2

\* what holds throughout such a connection
C35_LaterConnectionState ==
    LaterConnection =>
        /\ stdinPos = stdinLen /\ writeState # "running"
        /\ pcMain \in {"join", "close"} => shutdowns = 1
        /\ pcMain = "close" =>
              /\ netPos = netLen /\ pcRecv = "joined"
              /\ stdoutLog = recvLog /\ ~stdoutClosed

\* the steps taken during such a connection
C35_LaterConnectionStep ==
    LaterConnection =>
        /\ sockOut' = sockOut
        /\ pcMain = "transfer" /\ pcMain' # "transfer" =>
              pcMain' = "join" /\ shutdowns = 0 /\ shutdowns' = 1
        /\ pcMain = "close" /\ pcMain' # "close" =>
              pcMain' = "accept" /\ communicatorSocket \notin commOpen'

\* C35: in keep-listening mode with standard input at end-of-file, a
\* connection accepted afterwards is sent no byte: the main thread leaves the
\* transfer loop only by shutting down the write side; what the peer sends is
\* still written to standard output, all of it by the time the thread is
\* joined, with standard output left open; then the communicator is closed
\* and the main thread is at accept again
C35_LaterConnectionsOnlyReceive ==
    [](C35_LaterConnectionState) /\ [][C35_LaterConnectionStep]_vars

\* the second connection of a keep-listening run has been closed after its
\* peer sent bytes, and the main thread is back at accept
C35_Witness ==
    /\ LaterConnection /\ pcMain = "accept" /\ CommunicatorClosed
    /\ netLen > 0 /\ netPos = netLen /\ stdinLen > 0 /\ shutdowns = 1

\* where standard output stands in a TCP session
C36_StdoutState ==
    mode \in TCPModes =>
        /\ mode = "tcp_keep" => ~stdoutClosed
        /\ stdoutClosed =>
              /\ mode \in {"tcp_connect", "tcp_listen"} /\ connections = 1
              /\ pcRecv \in {"done", "joined"} /\ netPos = netLen

\* the steps that touch standard output in a TCP session: it is closed by the
\* receive thread's read of the end of the peer's stream and by nothing
\* else; once it is closed it stays closed, nothing more is written to it,
\* and the receive thread does not come back to the place where it closes it
C36_StdoutStep ==
    mode \in TCPModes =>
        /\ stdoutClosed' # stdoutClosed =>
              /\ ~stdoutClosed /\ Runs("recv")
              /\ pcRecv = "read" /\ pcRecv' = "done"
              /\ netPos = netLen /\ bytesRead' = 0
        /\ stdoutClosed =>
              /\ stdoutLog' = stdoutLog
              /\ pcRecv' \in {"done", "joined"}

\* C36: in a single-connection TCP session standard output is closed at most
\* once, by the receive thread, only when it has read the end of the peer's
\* stream, and nothing is written to standard output afterwards; a
\* keep-listening session never closes standard output
C36_StdoutClosedOnceAtPeerEnd ==
    [](C36_StdoutState) /\ [][C36_StdoutStep]_vars

\* standard output was closed after bytes of the peer had been written to it,
\* while the main thread is still relaying standard input
C36_Witness ==
    /\ mode \in {"tcp_connect", "tcp_listen"} /\ stdoutClosed
    /\ stdoutLog # <<>> /\ pcMain = "transfer"

\* C37: in keep-listening TCP mode and in UDP listen mode the listener is
\* never closed, the main thread never is at closeListener or release and
\* never returns from main, and a process that has ended has ended after a
\* report; in single-connection TCP listen mode the main thread is at
\* closeListener only with the communicator closed and the listener not yet
\* closed, at release only with both closed, and the process has exited with
\* the success status exactly when main returned, after release
C37_ListenerTeardown ==
    /\ mode \in {"tcp_keep", "udp_listen"} =>
          /\ listenerState # "closed"
          /\ pcMain \notin {"closeListener", "release", "returned"}
          /\ exitCode # "none" =>
                exitCode # "EXIT_SUCCESS" /\ stderrLog # <<>> /\ halting # {}
    /\ mode = "tcp_listen" =>
          /\ pcMain = "closeListener" => CommunicatorClosed /\ listenerState = "listening"
          /\ listenerState = "closed" => CommunicatorClosed
          /\ pcMain = "release" => listenerState = "closed"
          /\ pcMain = "returned" => listenerState = "closed" /\ exitCode = "EXIT_SUCCESS"
          /\ exitCode = "EXIT_SUCCESS" => pcMain = "returned" /\ halting = {}

\* a single-connection listener has torn everything down and exited
C37_Witness ==
    /\ mode = "tcp_listen" /\ pcMain = "returned" /\ exitCode = "EXIT_SUCCESS"
    /\ listenerState = "closed" /\ CommunicatorClosed

-----------------------------------------------------------------------------
(* A lone call of parsePort, main.cpp 66-77. A uint32_t is kept as its two  *)
(* 16-bit halves, so that its arithmetic is carried out modulo 2^32; the    *)
(* local variable result is written portResult.                             *)

MaxPortLen == 5         \* longest argument string followed

\* the chars an argument is made of: some digits, the neighbours of the
\* digits in the character set, and a byte above 127 as a signed char
PortChars == {47, 48, 51, 53, 54, 57, 58, -1}

MaxPadding == 10        \* longest run of one digit put in front of a string

\* n times the char c
Repeat(c, n) == [i \in 1..n |-> c]

\* every string up to MaxPortLen chars, and long strings of digits: runs of
\* zeros and of nines, alone and in front of 65535 and of 65536
PortStrings ==
    SeqsUpTo(PortChars, MaxPortLen)
        \cup {Repeat(c, n) \o s : c \in {48, 57}, n \in 1..MaxPadding,
                                  s \in {<<>>, <<54, 53, 53, 51, 53>>, <<54, 53, 53, 51, 54>>}}

\* '0'
Zero == 48

\* the conversion of an int to uint32_t
ToUint32(x) == [hi |-> (x \div UINT16) % UINT16, lo |-> x % UINT16]

\* the conversion of an int to unsigned char
ToUnsignedChar(x) == x % 256

\* result >= n for a uint32_t result
GreaterThan32_OrEqual(portResult, n) ==
    \/ portResult.hi > n \div UINT16
    \/ portResult.hi = n \div UINT16 /\ portResult.lo >= n % UINT16

\* result > n for a uint32_t result
GreaterThan32(portResult, n) ==
    \/ portResult.hi > n \div UINT16
    \/ portResult.hi = n \div UINT16 /\ portResult.lo > n % UINT16

\* result * 10 + digit in uint32_t, line 74, and whether the exact value was
\* 2^32 or more
MulAdd(portResult, digit) ==
    LET low  == portResult.lo * 10 + digit
        high == portResult.hi * 10 + low \div UINT16
    IN  [value |-> [hi |-> high % UINT16, lo |-> low % UINT16],
         overflow |-> high >= UINT16]

\* the process exits with the message, or the function returns the value
PortExit(message, overflowed) ==
    [kind |-> "exit", message |-> message, overflowed |-> overflowed]
PortReturn(value, overflowed) ==
    [kind |-> "return", value |-> value, overflowed |-> overflowed]

\* the loop of lines 70-75 from index i (counted from 0) on, then the return
\* of line 76, which converts result to uint16_t
RECURSIVE parsePortLoop(_, _, _, _)
parsePortLoop(string, i, portResult, overflowed) ==
    IF i = Len(string)
    THEN PortReturn(portResult.lo, overflowed)
    ELSE LET digit == ToUnsignedChar(string[i + 1] - Zero)
             next  == MulAdd(portResult, digit)
         IN  IF digit > 9
             THEN PortExit("port input string is invalid", overflowed)
             ELSE IF GreaterThan32(next.value, 65535)
             THEN PortExit("port input value too large", overflowed \/ next.overflow)
             ELSE parsePortLoop(string, i + 1, next.value, overflowed \/ next.overflow)

\* parsePort, main.cpp 66-77
parsePort(string) ==
    IF string = <<>>
    THEN PortExit("port input string cannot be empty", FALSE)
    ELSE LET portResult == ToUint32(string[1] - Zero)
         IN  IF GreaterThan32(portResult, 9)
             THEN PortExit("port input string is invalid", FALSE)
             ELSE parsePortLoop(string, 1, portResult, FALSE)

InitPort ==
    /\ portString \in PortStrings
    /\ flags = DefaultFlags
    /\ ProcInit /\ ResolveIdle /\ ListenIdle /\ ReportIdle /\ WriteIdle /\ UdpIdle /\ IoIdle
    /\ mode = NULL /\ pcMain = "parsePort" /\ pcRecv = "none"
    /\ listenerState = "uncreated" /\ communicatorSocket = NoSocket
    /\ commOpen = {} /\ connections = 0 /\ shutdowns = 0 /\ opLog = {}

\* flags::sourcePort = parsePort(argv[i]), main.cpp 183, after which the
\* loop of manageArgs goes on
ParsePort ==
    /\ Runs("main") /\ pcMain = "parsePort"
    /\ LET outcome == parsePort(portString)
       IN  IF outcome.kind = "exit"
           THEN /\ REPORT_ERROR_AND_EXIT(outcome.message, "EXIT_SUCCESS")
                /\ UNCHANGED <<flags, pcMain>>
           ELSE /\ flags' = [flags EXCEPT !.sourcePort = outcome.value]
                /\ pcMain' = "manageArgs"
                /\ UNCHANGED procVars
    /\ UNCHANGED <<resolveVars, listenVars, reportVars, portString, writeVars, udpVars, mode,
                   pcRecv, sockVars, opLog, ioVars>>

NextPort == ParsePort \/ HaltProgram

SpecPort == InitPort /\ [][NextPort]_vars

-----------------------------------------------------------------------------
(* Properties of parsePort, checked under SpecPort *)

\* a non-empty sequence of decimal digits
IsDigitString(string) ==
    string # <<>> /\ \A i \in 1..Len(string) : string[i] \in Zero..(Zero + 9)

\* the number its first n digits write, or 65536 when that number is more
\* than 65535 (no digit appended to such a number brings it back below)
RECURSIVE DecimalValue(_, _)
DecimalValue(string, n) ==
    IF n = 0 THEN 0
    ELSE LET number == DecimalValue(string, n - 1) * 10 + (string[n] - Zero)
         IN  IF number > 65535 THEN 65536 ELSE number

IsPortString(string) ==
    IsDigitString(string) /\ DecimalValue(string, Len(string)) <= 65535

\* C38: parsePort accepts its argument exactly when it is a non-empty
\* sequence of decimal digits whose value is at most 65535, and then returns
\* that value; a rejected argument ends the process with one report, an
\* argument error of parsePort, and the success status; for no argument does
\* result * 10 + digit reach 2^32
C38_ParsePortAcceptsPorts ==
    /\ ~parsePort(portString).overflowed
    /\ pcMain # "parsePort" \/ halting # {} =>
          IF IsPortString(portString)
          THEN /\ pcMain = "manageArgs" /\ halting = {} /\ stderrLog = <<>>
               /\ flags.sourcePort = DecimalValue(portString, Len(portString))
          ELSE /\ pcMain = "parsePort" /\ flags = DefaultFlags
               /\ halting = {[thread |-> "main", code |-> "EXIT_SUCCESS"]}
               /\ Len(stderrLog) = 1
               /\ [message |-> stderrLog[1].message, code |-> "EXIT_SUCCESS"]
                      \in parsePortErrors
               /\ exitCode \in {"none", "EXIT_SUCCESS"}

\* the largest port, written with zeros in front of its five digits, has
\* been accepted
C38_Witness ==
    /\ portString = <<48, 48, 54, 53, 53, 51, 53>> /\ pcMain = "manageArgs"
    /\ flags.sourcePort = 65535

====
